---- MODULE Spec2Model ----
(***************************************************************************)
(* A model of the SHACL engine of shacl-rs: the report builder and its RDF *)
(* report graph, the cardinality and shape-based constraint components,    *)
(* target resolution against the quad store, the optimiser's pruning of    *)
(* class targets, and the node-shape validation driver.                    *)
(*                                                                         *)
(* RDF terms are strings.  An Option<T> is a sequence of length at most 1: *)
(* <<>> is None and <<x>> is Some(x).  A Result<T, String> is a record     *)
(* [ok |-> BOOLEAN, ...].                                                  *)
(***************************************************************************)
EXTENDS Integers, Sequences, FiniteSets, TLC

VARIABLES
    store,        \* the quad store: a set of <<graph, subject, predicate, object>>
    node_shapes,  \* ValidationContext.node_shapes: shape id -> NodeShape
    stats,        \* OptimizerStats.unreachable_targets_removed
    results,      \* ValidationReportBuilder.results: Seq of [context, error]
    graph,        \* the Graph returned by the last call of to_graph
    validated,    \* the node shapes the driver has validated in this run
    op,           \* the last operation executed, with its arguments and return value
    input         \* the arguments of the pure components under check

vars == <<store, node_shapes, stats, results, graph, validated, op, input>>

None == <<>>
Some(x) == <<x>>

-----------------------------------------------------------------------------
(* Bounds of the model *)

\* the longest list of recorded failures the builder is driven to
MaxResults == 3
\* the largest count parameter of a cardinality component and the longest
\* list of value nodes it is applied to
MaxCount == 3
\* the longest list of value nodes the Node component is applied to
MaxValueNodes == 2

-----------------------------------------------------------------------------
(* Vocabulary *)

RDF_TYPE == "rdf:type"
RDFS_SUBCLASSOF == "rdfs:subClassOf"
SH_VALIDATION_REPORT == "sh:ValidationReport"
SH_VALIDATION_RESULT == "sh:ValidationResult"
SH_CONFORMS == "sh:conforms"
SH_RESULT == "sh:result"
SH_FOCUS_NODE == "sh:focusNode"
SH_RESULT_MESSAGE == "sh:resultMessage"
SH_RESULT_SEVERITY == "sh:resultSeverity"
SH_RESULT_PATH == "sh:resultPath"
SH_SOURCE_SHAPE == "sh:sourceShape"
SH_SOURCE_CONSTRAINT_COMPONENT == "sh:sourceConstraintComponent"
SH_VIOLATION == "sh:Violation"
SH_WARNING == "sh:Warning"
SH_INFO == "sh:Info"
SH_SEVERITY == "sh:severity"
SH_MESSAGE == "sh:message"
SH_DEACTIVATED == "sh:deactivated"
SH_SELECT == "sh:select"
SH_INVERSE_PATH == "sh:inversePath"
SH_ZERO_OR_MORE_PATH == "sh:zeroOrMorePath"
SH_ONE_OR_MORE_PATH == "sh:oneOrMorePath"
SH_ZERO_OR_ONE_PATH == "sh:zeroOrOnePath"
SH_ALTERNATIVE_PATH == "sh:alternativePath"
RDF_FIRST == "rdf:first"
RDF_REST == "rdf:rest"
RDF_NIL == "rdf:nil"

\* BlankNode::default(): a blank node with a fresh identifier.  The identifiers
\* are numbered per graph; n is the number of blank nodes made so far.
BlankNode(n) == "_:b" \o ToString(n)

\* Literal::from(bool)
BoolLiteral(b) == IF b THEN "true" ELSE "false"

-----------------------------------------------------------------------------
(* Sequences *)

Range(s) == {s[i] : i \in 1..Len(s)}

RECURSIVE Concat(_)
\* Iterator::flatten over a sequence of sequences
Concat(ss) == IF ss = <<>> THEN <<>> ELSE Head(ss) \o Concat(Tail(ss))

RECURSIVE SetToSeq(_)
\* the solutions of a SELECT DISTINCT query, in the order the store returns them
SetToSeq(S) ==
    IF S = {} THEN <<>>
    ELSE LET x == CHOOSE y \in S : TRUE IN <<x>> \o SetToSeq(S \ {x})

-----------------------------------------------------------------------------
(* The shapes model: interned handles, paths, property shapes, components *)

\* Path::Simple(term) and the unary path operators
Simple(term) == [kind |-> "Simple", term |-> term, inner |-> <<>>]
Inverse(p) == [kind |-> "Inverse", term |-> "", inner |-> <<p>>]
ZeroOrMore(p) == [kind |-> "ZeroOrMore", term |-> "", inner |-> <<p>>]
OneOrMore(p) == [kind |-> "OneOrMore", term |-> "", inner |-> <<p>>]
ZeroOrOne(p) == [kind |-> "ZeroOrOne", term |-> "", inner |-> <<p>>]
\* Path::Sequence(paths) and Path::Alternative(paths)
Sequence(paths) == [kind |-> "Sequence", term |-> "", inner |-> paths]
Alternative(paths) == [kind |-> "Alternative", term |-> "", inner |-> paths]

\* TraceItem::{NodeShape, PropertyShape, Component}
TraceItem(kind, id) == [kind |-> kind, id |-> id]

\* the handles the parser interned: node shape 1 is ex:Outer and node shape 2 is
\* ex:Inner; no node shape was interned for handle 9
NodeShapeIds == {1, 2}
PropShapeIds == {1, 2, 3, 4}
ComponentIds == 1..8

\* nodeshape_id_lookup().get_term(id)
NodeShapeTerm(id) ==
    IF id = 1 THEN Some("ex:Outer")
    ELSE IF id = 2 THEN Some("ex:Inner")
    ELSE None

\* propshape_id_lookup().get_term(id)
PropShapeTerm(id) ==
    IF id = 1 THEN Some("ex:P")
    ELSE IF id = 2 THEN Some("ex:Q")
    ELSE IF id = 3 THEN Some("ex:R")
    ELSE IF id = 4 THEN Some("ex:S")
    ELSE None

\* component_id_lookup().get_term(id)
ComponentTerm(id) ==
    IF id \in ComponentIds THEN Some("ex:c" \o ToString(id)) ELSE None

\* prop_shapes: the property shapes of the model, with the constraints of each
prop_shapes ==
    [id \in PropShapeIds |->
        IF id = 1 THEN [path |-> Simple("ex:p"), constraints |-> <<1, 4>>]
        ELSE IF id = 2 THEN [path |-> Inverse(Simple("ex:p")), constraints |-> <<2>>]
        ELSE IF id = 3
        THEN [path |-> Sequence(<<Simple("ex:p"), Inverse(Simple("ex:q"))>>),
              constraints |-> <<1>>]
        ELSE [path |-> Alternative(<<Simple("ex:p"), Simple("ex:q")>>),
              constraints |-> <<3>>]]

\* ValidationContext::get_prop_shape_by_id
get_prop_shape_by_id(id) ==
    IF id \in PropShapeIds THEN Some(prop_shapes[id]) ELSE None

\* ValidationContext::get_node_shape_by_id
get_node_shape_by_id(shapes, id) ==
    IF id \in DOMAIN shapes THEN Some(shapes[id]) ELSE None

\* SourceShape::NodeShape(id)
SourceShapeNode(id) == [kind |-> "NodeShape", id |-> id]

\* Context::new(focus_node, path, value_nodes, source_shape): the trace starts empty
NewContext(focus, value_nodes, source_shape) ==
    [focus_node |-> focus, value_nodes |-> value_nodes,
     source_shape |-> source_shape, execution_trace |-> <<>>]

-----------------------------------------------------------------------------
(* The report builder *)

\* Literal::new_simple_literal(value)
SimpleLiteral(value) == "\"" \o value \o "\""

\* Term::Literal(_)
IsLiteral(t) == Len(t) > 0 /\ SubSeq(t, 1, 1) = "\""

RECURSIVE LastQuote(_, _)
\* the position of the quote that closes the lexical form of a literal
LastQuote(t, i) == IF SubSeq(t, i, i) = "\"" THEN i ELSE LastQuote(t, i - 1)

\* Literal::value
LiteralValue(t) == SubSeq(t, 2, LastQuote(t, Len(t)) - 1)

\* the predicate a unary path operator is serialised with
PathPredicate(kind) ==
    IF kind = "Inverse" THEN SH_INVERSE_PATH
    ELSE IF kind = "ZeroOrMore" THEN SH_ZERO_OR_MORE_PATH
    ELSE IF kind = "OneOrMore" THEN SH_ONE_OR_MORE_PATH
    ELSE SH_ZERO_OR_ONE_PATH

RECURSIVE ListTriples(_, _, _)
\* the rdf:first and rdf:rest triples of the list cells n, n + 1, .. of items[i..]
ListTriples(items, i, n) ==
    IF i > Len(items) THEN {}
    ELSE {<<BlankNode(n + i - 1), RDF_FIRST, items[i]>>,
          <<BlankNode(n + i - 1), RDF_REST,
            IF i = Len(items) THEN RDF_NIL ELSE BlankNode(n + i)>>}
         \cup ListTriples(items, i + 1, n)

\* build_rdf_list(items, graph): one fresh blank node per item; rdf:nil for no item
build_rdf_list(items, g, n) ==
    IF items = <<>> THEN [term |-> RDF_NIL, g |-> g, n |-> n]
    ELSE [term |-> BlankNode(n), g |-> g \cup ListTriples(items, 1, n),
          n |-> n + Len(items)]

RECURSIVE path_to_rdf(_, _, _)
RECURSIVE PathItems(_, _, _)

\* paths.iter().map(|p| path_to_rdf(p, graph)).collect(): acc holds the terms
\* made so far, with the graph and the number of blank nodes
PathItems(paths, i, acc) ==
    IF i > Len(paths) THEN acc
    ELSE LET r == path_to_rdf(paths[i], acc.g, acc.n)
         IN PathItems(paths, i + 1,
                [items |-> Append(acc.items, r.term), g |-> r.g, n |-> r.n])

\* path_to_rdf(path, graph): the term of the path, with the triples it inserts
\* into g and the number n of blank nodes made so far
path_to_rdf(path, g, n) ==
    IF path.kind = "Simple" THEN [term |-> path.term, g |-> g, n |-> n]
    ELSE IF path.kind = "Sequence"
    THEN LET r == PathItems(path.inner, 1, [items |-> <<>>, g |-> g, n |-> n])
         IN build_rdf_list(r.items, r.g, r.n)
    ELSE IF path.kind = "Alternative"
    THEN LET bn == BlankNode(n)
             r == PathItems(path.inner, 1, [items |-> <<>>, g |-> g, n |-> n + 1])
             list_head == build_rdf_list(r.items, r.g, r.n)
         IN [term |-> bn,
             g |-> list_head.g \cup {<<bn, SH_ALTERNATIVE_PATH, list_head.term>>},
             n |-> list_head.n]
    ELSE LET bn == BlankNode(n)
             inner == path_to_rdf(path.inner[1], g, n + 1)
         IN [term |-> bn,
             g |-> inner.g \cup {<<bn, PathPredicate(path.kind), inner.term>>},
             n |-> inner.n]

\* the trace read from its first item on: the item looked at when i are left
TraceAt_forward(trace, i) == trace[Len(trace) - i + 1]

\* context.execution_trace().iter().rev(): the item looked at when i items are
\* left, the last item first
TraceAt(trace, i) == trace[i]

RECURSIVE TraceScan(_, _, _)
\* the loop of to_graph over context.execution_trace().iter().rev(): i is the
\* position of the item looked at, acc the three terms found so far with the graph
TraceScan(trace, i, acc) ==
    IF i = 0 THEN acc
    ELSE LET item == TraceAt(trace, i) IN
         IF item.kind = "NodeShape" THEN
            TraceScan(trace, i - 1,
                IF acc.source_shape = None
                THEN [acc EXCEPT !.source_shape = NodeShapeTerm(item.id)]
                ELSE acc)
         ELSE IF item.kind = "PropertyShape" THEN
            TraceScan(trace, i - 1,
                IF acc.source_shape = None
                THEN LET shape == get_prop_shape_by_id(item.id)
                         withTerm == [acc EXCEPT !.source_shape = PropShapeTerm(item.id)]
                     IN IF shape # None /\ acc.result_path = None
                        THEN LET r == path_to_rdf(shape[1].path, acc.g, acc.n)
                             IN [withTerm EXCEPT !.result_path = Some(r.term),
                                                 !.g = r.g, !.n = r.n]
                        ELSE withTerm
                ELSE acc)
         ELSE
            TraceScan(trace, i - 1,
                IF acc.source_constraint_component = None
                THEN [acc EXCEPT !.source_constraint_component = ComponentTerm(item.id)]
                ELSE acc)

\* the triples of one sh:ValidationResult node
ResultTriples(result_node, report_node, context, error_message, scan) ==
    {<<report_node, SH_RESULT, result_node>>,
     <<result_node, RDF_TYPE, SH_VALIDATION_RESULT>>,
     <<result_node, SH_FOCUS_NODE, context.focus_node>>,
     <<result_node, SH_RESULT_MESSAGE, SimpleLiteral(error_message)>>,
     <<result_node, SH_RESULT_SEVERITY, SH_VIOLATION>>}
    \cup {<<result_node, SH_SOURCE_SHAPE, t>> : t \in Range(scan.source_shape)}
    \cup {<<result_node, SH_RESULT_PATH, t>> : t \in Range(scan.result_path)}
    \cup {<<result_node, SH_SOURCE_CONSTRAINT_COMPONENT, t>> :
            t \in Range(scan.source_constraint_component)}

RECURSIVE ResultLoop(_, _, _, _, _)
\* the loop of to_graph over self.results: entry i is written with a fresh result
\* node unless every entry shares one (shared)
ResultLoop(rs, i, g, n, shared) ==
    IF i > Len(rs) THEN g
    ELSE LET result_node == IF shared THEN BlankNode(1) ELSE BlankNode(n)
             context == rs[i].context
             scan == TraceScan(context.execution_trace, Len(context.execution_trace),
                        [source_shape |-> None, result_path |-> None,
                         source_constraint_component |-> None,
                         g |-> g, n |-> n + 1])
         IN ResultLoop(rs, i + 1,
                scan.g \cup ResultTriples(result_node, BlankNode(0), context,
                                          rs[i].error, scan),
                scan.n, shared)

\* ValidationReportBuilder::to_graph, with the value written for sh:conforms
ReportGraph(rs, conforms, shared) ==
    LET report_node == BlankNode(0)
        g0 == {<<report_node, RDF_TYPE, SH_VALIDATION_REPORT>>,
               <<report_node, SH_CONFORMS, BoolLiteral(conforms)>>}
    IN IF ~conforms THEN ResultLoop(rs, 1, g0, 1, shared) ELSE g0

\* to_graph with conforms taken as results.len() <= 1
to_graph_off_by_one(rs) == ReportGraph(rs, Len(rs) <= 1, FALSE)

\* to_graph with the result node made once, before the loop
to_graph_shared_node(rs) == ReportGraph(rs, Len(rs) = 0, TRUE)

\* ValidationReportBuilder::to_graph
to_graph(rs) == ReportGraph(rs, Len(rs) = 0, FALSE)

\* an add_error that replaces the entry recorded last
add_error_overwrite(rs, context, error) ==
    IF rs = <<>> THEN <<[context |-> context, error |-> error]>>
    ELSE [rs EXCEPT ![Len(rs)] = [context |-> context, error |-> error]]

\* ValidationReportBuilder::add_error: the context is stored as a clone
add_error(rs, context, error) == Append(rs, [context |-> context, error |-> error])

-----------------------------------------------------------------------------
(* The quad store and the SPARQL queries the engine sends to it *)

SHAPES_GRAPH == "urn:shapes"
DATA_GRAPH == "urn:data"

Quad(g, s, p, o) == <<g, s, p, o>>

\* the triples of the named graph g
GraphOf(st, g) == {<<q[2], q[3], q[4]>> : q \in {r \in st : r[1] = g}}

\* Dataset::set_default_graph_as_union: the triples of every graph of the store
UnionGraph(st) == {<<q[2], q[3], q[4]>> : q \in st}

\* the terms that are IRIs (Term::NamedNode); the others are literals
IsNamedNode(t) == t \notin {SimpleLiteral("x")}

RECURSIVE Reach(_, _, _)
\* the nodes reached from the nodes of S by zero or more edges with predicate p
Reach(g, p, S) ==
    LET next == S \cup {t[3] : t \in {u \in g : u[2] = p /\ u[1] \in S}}
    IN IF next = S THEN S ELSE Reach(g, p, next)

\* SELECT DISTINCT ?inst ?target_class
\*   WHERE { ?inst rdf:type ?c . ?c rdfs:subClassOf* ?target_class }
\* with ?target_class substituted by c
ClassInstances(g, c) ==
    {t[1] : t \in {u \in g : u[2] = RDF_TYPE /\ c \in Reach(g, RDFS_SUBCLASSOF, {u[3]})}}

\* SELECT DISTINCT ?s WHERE { ?s <p> ?any . }
SubjectsOfQuery(g, p) == {t[1] : t \in {u \in g : u[2] = p}}

\* SELECT DISTINCT ?o WHERE { ?any <p> ?o . }
ObjectsOfQuery(g, p) == {t[3] : t \in {u \in g : u[2] = p}}

\* TYPE_QUERY: SELECT DISTINCT ?type WHERE { ?s rdf:type/rdfs:subClassOf* ?type . }
TypeQuery(g) ==
    UNION {Reach(g, RDFS_SUBCLASSOF, {t[3]}) : t \in {u \in g : u[2] = RDF_TYPE}}

-----------------------------------------------------------------------------
(* Targets and the optimiser *)

Target(kind, term) == [kind |-> kind, term |-> term]

\* the contexts made from the solutions of a target query
TargetContexts(nodes, source_shape_id) ==
    LET sols == SetToSeq(nodes)
    IN [i \in 1..Len(sols) |-> NewContext(sols[i], Some(<<sols[i]>>),
                                  SourceShapeNode(source_shape_id))]

\* Target::get_target_nodes: every query has the union of all graphs as default graph
get_target_nodes(target, st, source_shape_id) ==
    IF target.kind = "Node"
    THEN <<NewContext(target.term, Some(<<target.term>>), SourceShapeNode(source_shape_id))>>
    ELSE IF target.kind = "Class"
    THEN TargetContexts(ClassInstances(UnionGraph(st), target.term), source_shape_id)
    ELSE IF ~IsNamedNode(target.term) THEN <<>>
    ELSE IF target.kind = "SubjectsOf"
    THEN TargetContexts(SubjectsOfQuery(UnionGraph(st), target.term), source_shape_id)
    ELSE TargetContexts(ObjectsOfQuery(UnionGraph(st), target.term), source_shape_id)

\* a retain that keeps no class target
RetainTargets_no_class(targets, types) ==
    SelectSeq(targets, LAMBDA t : t.kind # "Class")

\* shape.targets.retain(..): the class targets of a type in types, and all others
RetainTargets(targets, types) ==
    SelectSeq(targets, LAMBDA t : IF t.kind = "Class" THEN t.term \in types ELSE TRUE)

\* Optimizer::remove_unreachable_targets: the type query has the data graph as
\* its default graph
remove_unreachable_targets(shapes, st) ==
    LET types == TypeQuery(GraphOf(st, DATA_GRAPH))
    IN [id \in DOMAIN shapes |->
            [shapes[id] EXCEPT !.targets = RetainTargets(shapes[id].targets, types)]]

RECURSIVE SumLen(_, _)
\* the number of targets of the shapes with an id in ids
SumLen(shapes, ids) ==
    IF ids = {} THEN 0
    ELSE LET id == CHOOSE x \in ids : TRUE
         IN Len(shapes[id].targets) + SumLen(shapes, ids \ {id})

-----------------------------------------------------------------------------
(* Constraint components.  A component returns [ok, error, results]: Ok(..) with *)
(* the Fail results it lists, or Err(error).                                     *)

Pass == [ok |-> TRUE, error |-> "", results |-> <<>>]
Err(e) == [ok |-> FALSE, error |-> e, results |-> <<>>]
Ok(rs) == [ok |-> TRUE, error |-> "", results |-> rs]

\* c.value_nodes().map_or(0, |v| v.len())
ValueCount(c) == IF c.value_nodes = None THEN 0 ELSE Len(c.value_nodes[1])

\* MinCount with the comparison <= in place of <
MinCount_validate_le(min_count, c) ==
    IF ValueCount(c) <= min_count
    THEN Err("Value count (" \o ToString(ValueCount(c))
             \o ") does not meet minimum requirement: " \o ToString(min_count))
    ELSE Pass

\* MinCountConstraintComponent::validate
MinCount_validate(min_count, c) ==
    IF ValueCount(c) < min_count
    THEN Err("Value count (" \o ToString(ValueCount(c))
             \o ") does not meet minimum requirement: " \o ToString(min_count))
    ELSE Pass

\* MaxCountConstraintComponent::validate
MaxCount_validate(max_count, c) ==
    IF ValueCount(c) > max_count
    THEN Err("Value count (" \o ToString(ValueCount(c))
             \o ") does not meet maximum requirement: " \o ToString(max_count))
    ELSE Pass

\* PropertyConstraintComponent::validate: only the existence of the property
\* shape is checked
PropertyConstraint_validate(shape, c) ==
    IF get_prop_shape_by_id(shape) = None
    THEN Err("Referenced property shape not found for ID: " \o ToString(shape))
    ELSE Pass

\* the first quad of quads_for_pattern(subject, predicate, None, shapes graph)
FirstObject(st, subject, predicate) ==
    LET os == {q[4] : q \in {r \in st : r[1] = SHAPES_GRAPH /\ r[2] = subject
                                         /\ r[3] = predicate}}
    IN IF os = {} THEN None ELSE Some(CHOOSE o \in os : TRUE)

\* step 1 of SPARQLConstraintComponent::validate: sh:deactivated is the literal
\* "true"^^xsd:boolean
SparqlDeactivated(st, constraint_node) ==
    FirstObject(st, constraint_node, SH_DEACTIVATED) = Some("true")

\* a prefix declaration as get_prefixes_for_sparql_node meets it: the values of
\* sh:prefix and sh:namespace of a sh:declare node (each may be missing), or an
\* entry of the namespace map of an ontology
Declaration(prefix, namespace) == [prefix |-> prefix, namespace |-> namespace]

RECURSIVE CollectPrefixes(_, _, _)
\* the loops of get_prefixes_for_sparql_node over the declarations, in the order
\* they are met; collected maps the prefixes met so far to their namespaces
CollectPrefixes(declarations, i, collected) ==
    IF i > Len(declarations) THEN [ok |-> TRUE, error |-> "", prefixes |-> collected]
    ELSE LET d == declarations[i] IN
         IF d.prefix = None \/ d.namespace = None
         THEN [ok |-> FALSE, prefixes |-> {},
               error |-> "Ill-formed prefix declaration. Missing sh:prefix or sh:namespace."]
         ELSE IF \E e \in collected : e.prefix = d.prefix[1] /\ e.namespace # d.namespace[1]
         THEN [ok |-> FALSE, prefixes |-> {},
               error |-> "Duplicate prefix '" \o d.prefix[1] \o "' with different namespaces"]
         ELSE CollectPrefixes(declarations, i + 1,
                  collected \cup {[prefix |-> d.prefix[1], namespace |-> d.namespace[1]]})

\* get_prefixes_for_sparql_node: the collected prefixes, each of which becomes
\* a line PREFIX prefix: <namespace> of the result
get_prefixes_for_sparql_node(declarations) == CollectPrefixes(declarations, 1, {})

\* get_prefixes_for_sparql_node(..).unwrap_or_default()
unwrap_or_default(r) == IF r.ok THEN r.prefixes ELSE {}

\* the query texts the SPARQL parser does not accept
MalformedQueries == {"SELECT $this WHERE {"}

\* AlgebraQuery::parse(query_str, None)
AlgebraQuery_parse(query_str) ==
    IF query_str \in MalformedQueries
    THEN [ok |-> FALSE, error |-> "error at 1:21: expected }"]
    ELSE [ok |-> TRUE, error |-> ""]

RECURSIVE SolutionLoop(_, _, _, _, _, _)
\* the loop of SPARQLConstraintComponent::validate over the solutions: one Fail
\* per solution whose failed value node was not seen before
SolutionLoop(sols, i, component_id, c, seen, acc) ==
    IF i > Len(sols) THEN Ok(acc)
    ELSE IF sols[i].failure THEN Err("SPARQL query reported a failure.")
    ELSE LET failed_value_node ==
                 IF sols[i].value # None THEN sols[i].value
                 ELSE IF c.source_shape.kind = "NodeShape" THEN Some(c.focus_node)
                 ELSE None
         IN IF failed_value_node \in seen
            THEN SolutionLoop(sols, i + 1, component_id, c, seen, acc)
            ELSE SolutionLoop(sols, i + 1, component_id, c,
                     seen \cup {failed_value_node},
                     Append(acc, [context |-> c, component_id |-> component_id,
                                  failed_value_node |-> failed_value_node]))

\* SPARQLConstraintComponent::validate; env.solutions[f] are the solutions the
\* store returns for the sh:select query with $this bound to f
SparqlConstraint_validate(constraint_node, component_id, c, env) ==
    IF SparqlDeactivated(env.store, constraint_node) THEN Ok(<<>>)
    ELSE IF FirstObject(env.store, constraint_node, SH_SELECT) = None
    THEN Err("SPARQL constraint is missing sh:select")
    ELSE IF ~get_prefixes_for_sparql_node(env.declarations).ok
    THEN Err(get_prefixes_for_sparql_node(env.declarations).error)
    ELSE IF ~AlgebraQuery_parse(
                 LiteralValue(FirstObject(env.store, constraint_node, SH_SELECT)[1])).ok
    THEN Err("Failed to parse SPARQL constraint query: "
             \o AlgebraQuery_parse(
                 LiteralValue(FirstObject(env.store, constraint_node, SH_SELECT)[1])).error)
    ELSE SolutionLoop(env.solutions[c.focus_node], 1, component_id, c, {}, <<>>)

\* component_descriptors: the constraint components of the model
ComponentDescriptor(id) ==
    IF id = 1 THEN [kind |-> "MinCount", n |-> 1, shape |-> 0, node |-> ""]
    ELSE IF id = 2 THEN [kind |-> "MaxCount", n |-> 0, shape |-> 0, node |-> ""]
    ELSE IF id = 3 THEN [kind |-> "MinCount", n |-> 2, shape |-> 0, node |-> ""]
    ELSE IF id = 4 THEN [kind |-> "Node", n |-> 0, shape |-> 2, node |-> ""]
    ELSE IF id = 5 THEN [kind |-> "Property", n |-> 0, shape |-> 1, node |-> ""]
    ELSE IF id = 6 THEN [kind |-> "Sparql", n |-> 0, shape |-> 0, node |-> "ex:K1"]
    ELSE IF id = 7 THEN [kind |-> "Node", n |-> 0, shape |-> 9, node |-> ""]
    ELSE [kind |-> "Property", n |-> 0, shape |-> 9, node |-> ""]

\* ValidationContext::get_component_by_id
get_component_by_id(id) ==
    IF id \in ComponentIds THEN Some(ComponentDescriptor(id)) ELSE None

RECURSIVE component_validate(_, _, _)
RECURSIVE ConstraintLoop(_, _, _, _, _)
RECURSIVE NodeLoop(_, _, _, _, _)

\* check_conformance_for_node(context, shape, validation_context): the shape's
\* constraints are run on the context with a report builder of its own
check_conformance_for_node(ctx, shape, env) ==
    LET r == ConstraintLoop(shape.constraints, 1, ctx, env, <<>>)
    IN [ok |-> r.ok, error |-> r.error, conforms |-> r.rb = <<>>]

RECURSIVE NodeLoop_report_last(_, _, _, _, _)
\* the loop over the value nodes going on after a value node that does not
\* conform, so that the failure found last is returned
NodeLoop_report_last(value_nodes, i, shape_id, env, first_only) ==
    IF i > Len(value_nodes) \/ (first_only /\ i > 1) THEN Pass
    ELSE LET v == value_nodes[i]
             value_node_as_context == NewContext(v, Some(<<v>>), SourceShapeNode(shape_id))
             r == check_conformance_for_node(value_node_as_context,
                                             env.shapes[shape_id], env)
             rest == NodeLoop_report_last(value_nodes, i + 1, shape_id, env, first_only)
         IN IF ~r.ok
            THEN Err("Error checking conformance for sh:node shape "
                     \o ToString(shape_id) \o ": " \o r.error)
            ELSE IF ~r.conforms /\ rest.ok
            THEN Err("Value " \o v \o " does not conform to sh:node shape "
                     \o ToString(shape_id))
            ELSE rest

\* the loop of NodeConstraintComponent::validate over the value nodes; when
\* first_only holds the loop is left after its first value node
NodeLoop(value_nodes, i, shape_id, env, first_only) ==
    IF i > Len(value_nodes) \/ (first_only /\ i > 1) THEN Pass
    ELSE LET v == value_nodes[i]
             value_node_as_context == NewContext(v, Some(<<v>>), SourceShapeNode(shape_id))
             r == check_conformance_for_node(value_node_as_context,
                                             env.shapes[shape_id], env)
         IN IF ~r.ok
            THEN Err("Error checking conformance for sh:node shape "
                     \o ToString(shape_id) \o ": " \o r.error)
            ELSE IF ~r.conforms
            THEN Err("Value " \o v \o " does not conform to sh:node shape "
                     \o ToString(shape_id))
            ELSE NodeLoop(value_nodes, i + 1, shape_id, env, first_only)

\* NodeConstraintComponent::validate
NodeConstraintImpl(shape_id, c, env, first_only) ==
    IF c.value_nodes = None THEN Pass
    ELSE IF get_node_shape_by_id(env.shapes, shape_id) = None
    THEN Err("sh:node referenced shape " \o ToString(shape_id) \o " not found")
    ELSE NodeLoop(c.value_nodes[1], 1, shape_id, env, first_only)

\* NodeConstraintComponent::validate checking its first value node alone
NodeConstraint_validate_first(shape_id, c, env) ==
    NodeConstraintImpl(shape_id, c, env, TRUE)

\* NodeConstraintComponent::validate
NodeConstraint_validate(shape_id, c, env) ==
    NodeConstraintImpl(shape_id, c, env, FALSE)

\* comp.validate(..): the validator of the component's descriptor applied to c
component_validate(component_id, c, env) ==
    LET d == ComponentDescriptor(component_id) IN
    IF d.kind = "MinCount" THEN MinCount_validate(d.n, c)
    ELSE IF d.kind = "MaxCount" THEN MaxCount_validate(d.n, c)
    ELSE IF d.kind = "Node" THEN NodeConstraint_validate(d.shape, c, env)
    ELSE IF d.kind = "Property" THEN PropertyConstraint_validate(d.shape, c)
    ELSE SparqlConstraint_validate(d.node, component_id, c, env)

RECURSIVE ConstraintLoop_stop_on_error(_, _, _, _, _)
\* the loop over self.constraints() leaving the target after the first Err
ConstraintLoop_stop_on_error(constraints, j, target, env, rb) ==
    IF j > Len(constraints) THEN [ok |-> TRUE, error |-> "", rb |-> rb]
    ELSE IF get_component_by_id(constraints[j]) = None
    THEN [ok |-> FALSE,
          error |-> "Component not found: " \o ToString(constraints[j]), rb |-> rb]
    ELSE LET r == component_validate(constraints[j], target, env)
         IN IF ~r.ok THEN [ok |-> TRUE, error |-> "", rb |-> add_error(rb, target, r.error)]
            ELSE ConstraintLoop_stop_on_error(constraints, j + 1, target, env, rb)

\* the loop of NodeShape::validate over self.constraints() for one target: an
\* Err of a component is recorded with the target's context; a component that
\* is not found ends the validation with an error
ConstraintLoop(constraints, j, target, env, rb) ==
    IF j > Len(constraints) THEN [ok |-> TRUE, error |-> "", rb |-> rb]
    ELSE IF get_component_by_id(constraints[j]) = None
    THEN [ok |-> FALSE,
          error |-> "Component not found: " \o ToString(constraints[j]), rb |-> rb]
    ELSE LET r == component_validate(constraints[j], target, env)
         IN ConstraintLoop(constraints, j + 1, target, env,
                IF ~r.ok THEN add_error(rb, target, r.error) ELSE rb)

RECURSIVE TargetLoop(_, _, _, _, _)
\* the loop of NodeShape::validate over the target contexts
TargetLoop(target_contexts, i, constraints, env, rb) ==
    IF i > Len(target_contexts) THEN [ok |-> TRUE, error |-> "", rb |-> rb]
    ELSE LET r == ConstraintLoop(constraints, 1, target_contexts[i], env, rb)
         IN IF ~r.ok THEN r
            ELSE TargetLoop(target_contexts, i + 1, constraints, env, r.rb)

RECURSIVE InnerFailures(_, _, _, _)
\* the failures of the shapes that the Node constraints among constraints[j..]
\* refer to, for the value nodes of the target
InnerFailures(constraints, j, target, env) ==
    IF j > Len(constraints) THEN <<>>
    ELSE LET d == ComponentDescriptor(constraints[j])
             vs == IF target.value_nodes = None THEN <<>> ELSE target.value_nodes[1]
             inner ==
                 IF d.kind = "Node" /\ d.shape \in DOMAIN env.shapes
                 THEN Concat([k \in 1..Len(vs) |->
                        ConstraintLoop(env.shapes[d.shape].constraints, 1,
                            NewContext(vs[k], Some(<<vs[k]>>), SourceShapeNode(d.shape)),
                            env, <<>>).rb])
                 ELSE <<>>
         IN inner \o InnerFailures(constraints, j + 1, target, env)

\* NodeShape::validate with the conformance checks of its Node constraints
\* writing into the caller's report builder
NodeShape_validate_propagating(id, env, rb) ==
    LET shape == env.shapes[id]
        target_contexts ==
            Concat([i \in 1..Len(shape.targets) |->
                        get_target_nodes(shape.targets[i], env.store, id)])
        r == TargetLoop(target_contexts, 1, shape.constraints, env, rb)
    IN [r EXCEPT !.rb = r.rb \o Concat([i \in 1..Len(target_contexts) |->
                            InnerFailures(shape.constraints, 1, target_contexts[i], env)])]

\* NodeShape::validate: the targets are resolved and every constraint is run on
\* every target context
NodeShape_validate(id, env, rb) ==
    LET shape == env.shapes[id]
        target_contexts ==
            Concat([i \in 1..Len(shape.targets) |->
                        get_target_nodes(shape.targets[i], env.store, id)])
    IN TargetLoop(target_contexts, 1, shape.constraints, env, rb)

\* PropertyShape::validate: a query string is built for every context and
\* dropped; the report builder is not touched
PropertyShape_validate(id, contexts, env, rb) == [ok |-> TRUE, error |-> "", rb |-> rb]

-----------------------------------------------------------------------------
(* The pre-binding analyser of SPARQL validators.  A graph pattern of the query *)
(* algebra is [kind, inner, variables, exprs, aggregates] and an expression is  *)
(* [kind, args, pattern]; the analyser returns [ok, error].                     *)

Accept == [ok |-> TRUE, error |-> ""]
Reject(e) == [ok |-> FALSE, error |-> e]

\* GraphPattern::{Bgp, Path, Values}
Leaf(kind) ==
    [kind |-> kind, inner |-> <<>>, variables |-> <<>>, exprs |-> <<>>,
     aggregates |-> <<>>]
\* GraphPattern::{Graph, Distinct, Reduced, Slice, Service}
Unary(kind, inner) ==
    [kind |-> kind, inner |-> <<inner>>, variables |-> <<>>, exprs |-> <<>>,
     aggregates |-> <<>>]
\* GraphPattern::{Join, Union, Lateral, Minus}
Binary(kind, left, right) ==
    [kind |-> kind, inner |-> <<left, right>>, variables |-> <<>>, exprs |-> <<>>,
     aggregates |-> <<>>]
\* GraphPattern::Filter { expr, inner }
Filter(expr, inner) ==
    [kind |-> "Filter", inner |-> <<inner>>, variables |-> <<>>, exprs |-> <<expr>>,
     aggregates |-> <<>>]
\* GraphPattern::LeftJoin { left, right, expression }: expression is an Option
LeftJoin(left, right, expression) ==
    [kind |-> "LeftJoin", inner |-> <<left, right>>, variables |-> <<>>,
     exprs |-> expression, aggregates |-> <<>>]
\* GraphPattern::Extend { inner, variable, expression }
Extend(inner, variable, expression) ==
    [kind |-> "Extend", inner |-> <<inner>>, variables |-> <<variable>>,
     exprs |-> <<expression>>, aggregates |-> <<>>]
\* GraphPattern::Group { inner, aggregates }: aggregates are (variable, aggregate)
Group(inner, aggregates) ==
    [kind |-> "Group", inner |-> <<inner>>, variables |-> <<>>, exprs |-> <<>>,
     aggregates |-> aggregates]
\* GraphPattern::Project { inner, variables }
Project(inner, variables) ==
    [kind |-> "Project", inner |-> <<inner>>, variables |-> variables,
     exprs |-> <<>>, aggregates |-> <<>>]
\* GraphPattern::OrderBy { inner, expression }
OrderBy(inner, expression) ==
    [kind |-> "OrderBy", inner |-> <<inner>>, variables |-> <<>>,
     exprs |-> expression, aggregates |-> <<>>]

\* Expression::{NamedNode, Literal, Variable, Bound}
Atom(kind) == [kind |-> kind, args |-> <<>>, pattern |-> <<>>]
\* the expressions over sub-expressions: Not, And, Equal, In, FunctionCall, If, ..
Apply(kind, args) == [kind |-> kind, args |-> args, pattern |-> <<>>]
\* Expression::Exists(pattern); NOT EXISTS is Not(Exists(pattern))
Exists(pattern) == [kind |-> "Exists", args |-> <<>>, pattern |-> <<pattern>>]

\* AggregateExpression::{CountSolutions, FunctionCall { expr }}
CountSolutions == [kind |-> "CountSolutions", expr |-> <<>>]
AggregateCall(expr) == [kind |-> "FunctionCall", expr |-> <<expr>>]

RECURSIVE check_graph_pattern(_, _, _, _, _)
RECURSIVE check_expression(_, _, _, _)
RECURSIVE CheckExpressions(_, _, _, _, _)
RECURSIVE CheckAggregates(_, _, _, _, _)

\* r? ; rest
AndThen(r, rest) == IF r.ok THEN rest ELSE r

\* the loops of check_expression and check_graph_pattern over a list of expressions
CheckExpressions(exprs, i, context_label, prebound, optional) ==
    IF i > Len(exprs) THEN Accept
    ELSE AndThen(check_expression(exprs[i], context_label, prebound, optional),
                 CheckExpressions(exprs, i + 1, context_label, prebound, optional))

\* check_expression taking EXISTS for an expression without a graph pattern
check_expression_shallow(expr, context_label, prebound, optional) ==
    IF expr.kind \in {"NamedNode", "Literal", "Variable", "Bound", "Exists"} THEN Accept
    ELSE CheckExpressions(expr.args, 1, context_label, prebound, optional)

\* check_expression: only EXISTS holds a graph pattern
check_expression(expr, context_label, prebound, optional) ==
    IF expr.kind \in {"NamedNode", "Literal", "Variable", "Bound"} THEN Accept
    ELSE IF expr.kind = "Exists"
    THEN check_graph_pattern(expr.pattern[1], context_label, prebound, optional, FALSE)
    ELSE CheckExpressions(expr.args, 1, context_label, prebound, optional)

\* check_aggregate_expression
check_aggregate_expression(aggregate, context_label, prebound, optional) ==
    IF aggregate.kind = "CountSolutions" THEN Accept
    ELSE check_expression(aggregate.expr[1], context_label, prebound, optional)

\* the loop over the aggregates of a Group without the test of the variable
CheckAggregates_unchecked(aggregates, i, context_label, prebound, optional) ==
    IF i > Len(aggregates) THEN Accept
    ELSE AndThen(check_aggregate_expression(aggregates[i].aggregate, context_label,
                                            prebound, optional),
                 CheckAggregates(aggregates, i + 1, context_label, prebound, optional))

\* the loop of check_graph_pattern over the aggregates of a Group
CheckAggregates(aggregates, i, context_label, prebound, optional) ==
    IF i > Len(aggregates) THEN Accept
    ELSE IF aggregates[i].variable \in prebound
    THEN Reject(context_label \o " must not reassign the pre-bound variable ?"
                \o aggregates[i].variable \o ".")
    ELSE AndThen(check_aggregate_expression(aggregates[i].aggregate, context_label,
                                            prebound, optional),
                 CheckAggregates(aggregates, i + 1, context_label, prebound, optional))

\* the pre-bound variables a Project must list and does not
Hidden(variables, prebound, optional) == (prebound \ optional) \ Range(variables)

\* check_graph_pattern
check_graph_pattern(pattern, context_label, prebound, optional, is_root) ==
    LET k == pattern.kind
        sub(j, root) ==
            check_graph_pattern(pattern.inner[j], context_label, prebound, optional, root)
    IN
    IF k \in {"Bgp", "Path"} THEN Accept
    ELSE IF k \in {"Join", "Union", "Lateral"} THEN AndThen(sub(1, FALSE), sub(2, FALSE))
    ELSE IF k \in {"Graph", "Distinct", "Reduced", "Slice"} THEN sub(1, is_root)
    ELSE IF k = "Filter"
    THEN AndThen(check_expression(pattern.exprs[1], context_label, prebound, optional),
                 sub(1, FALSE))
    ELSE IF k = "LeftJoin"
    THEN AndThen(sub(1, FALSE),
         AndThen(sub(2, FALSE),
                 CheckExpressions(pattern.exprs, 1, context_label, prebound, optional)))
    ELSE IF k = "Extend"
    THEN IF pattern.variables[1] \in prebound
         THEN Reject(context_label \o " must not reassign the pre-bound variable ?"
                     \o pattern.variables[1] \o ".")
         ELSE AndThen(check_expression(pattern.exprs[1], context_label, prebound, optional),
                      sub(1, FALSE))
    ELSE IF k = "Group"
    THEN AndThen(CheckAggregates(pattern.aggregates, 1, context_label, prebound, optional),
                 sub(1, FALSE))
    ELSE IF k = "Project"
    THEN IF ~is_root /\ Hidden(pattern.variables, prebound, optional) # {}
         THEN Reject(context_label \o " subqueries must project the pre-bound variable ?"
                     \o (CHOOSE v \in Hidden(pattern.variables, prebound, optional) : TRUE)
                     \o ".")
         ELSE sub(1, FALSE)
    ELSE IF k = "Values" THEN Reject(context_label \o " must not contain a VALUES clause.")
    ELSE IF k = "Minus" THEN Reject(context_label \o " must not contain a MINUS clause.")
    ELSE IF k = "Service"
    THEN Reject(context_label \o " must not contain a federated query (SERVICE).")
    ELSE AndThen(CheckExpressions(pattern.exprs, 1, context_label, prebound, optional),
                 sub(1, is_root))

\* ensure_pre_binding_semantics: the pattern of the query is checked as the root
ensure_pre_binding_semantics(query, context_label, prebound, optional) ==
    check_graph_pattern(query.pattern, context_label, prebound, optional, TRUE)

-----------------------------------------------------------------------------
(* Custom constraint components and their SPARQL validators.  A literal is    *)
(* written in its N-Triples form, which is the form Display gives it; an IRI  *)
(* is written bare and displayed between angle brackets.                      *)

XSD_BOOLEAN == "xsd:boolean"
XSD_INTEGER == "xsd:integer"

\* Literal::new_language_tagged_literal_unchecked(value, language)
LangLiteral(value, language) == "\"" \o value \o "\"@" \o language
\* Literal::new_typed_literal(value, datatype)
TypedLiteral(value, datatype) == "\"" \o value \o "\"^^<" \o datatype \o ">"

\* Literal::language: the tag after "@", or "" when the literal has none
LiteralLanguage(t) ==
    LET q == LastQuote(t, Len(t))
    IN IF q < Len(t) /\ SubSeq(t, q + 1, q + 1) = "@" THEN SubSeq(t, q + 2, Len(t))
       ELSE ""

\* Literal::datatype of a typed literal, or "" when the literal has none written
LiteralDatatype(t) ==
    LET q == LastQuote(t, Len(t))
    IN IF q + 3 < Len(t) /\ SubSeq(t, q + 1, q + 3) = "^^<"
       THEN SubSeq(t, q + 4, Len(t) - 1)
       ELSE ""

\* Term::to_string
TermToString(t) == IF IsLiteral(t) THEN t ELSE "<" \o t \o ">"

RECURSIVE Replace(_, _, _)
\* str::replace(from, to): every match of from, left to right, without overlap
Replace(str, from, to) ==
    IF Len(str) < Len(from) THEN str
    ELSE IF SubSeq(str, 1, Len(from)) = from
    THEN to \o Replace(SubSeq(str, Len(from) + 1, Len(str)), from, to)
    ELSE SubSeq(str, 1, 1) \o Replace(SubSeq(str, 2, Len(str)), from, to)

\* a QuerySolution is the list of its bound variables, in the order of the
\* projection, each with its term
Binding(var, term) == [var |-> var, term |-> term]

\* QuerySolution::get(var)
Get(solution, var) ==
    LET is == {i \in 1..Len(solution) : solution[i].var = var}
    IN IF is = {} THEN None ELSE Some(solution[CHOOSE i \in is : TRUE].term)

RECURSIVE SubstituteMessage(_, _, _)
\* the loop over solution.variables() that substitutes {?var} and {$var}
SubstituteMessage(message, solution, i) ==
    IF i > Len(solution) THEN message
    ELSE LET placeholder1 == "{?" \o solution[i].var \o "}"
             placeholder2 == "{$" \o solution[i].var \o "}"
             term == TermToString(solution[i].term)
         IN SubstituteMessage(
                Replace(Replace(message, placeholder1, term), placeholder2, term),
                solution, i + 1)

RECURSIVE JoinValues(_, _)
\* GROUP_CONCAT(?msg; separator="|||") over the lexical forms of the messages
JoinValues(messages, i) ==
    IF i > Len(messages) THEN ""
    ELSE LiteralValue(messages[i])
         \o (IF i < Len(messages) THEN "|||" ELSE "") \o JoinValues(messages, i + 1)

\* parse_validator: the messages declared on the validator node are kept as one
\* simple literal, and the prefixes are empty when their collection fails
SPARQLValidator(query, is_ask, declared_messages, declarations) ==
    [query |-> query, is_ask |-> is_ask,
     messages |-> <<SimpleLiteral(JoinValues(declared_messages, 1))>>,
     prefixes |-> unwrap_or_default(get_prefixes_for_sparql_node(declarations))]

\* ComponentValidationResult::Fail(context, ValidationFailure { .. })
Fail(c, component_id, failed_value_node, message, result_path) ==
    [context |-> c, component_id |-> component_id,
     failed_value_node |-> failed_value_node, message |-> message,
     result_path |-> result_path]

\* the choice of the validator preferring nodeValidator in every context
choose_validator_node_first(definition, c) ==
    IF definition.node_validator # None THEN definition.node_validator
    ELSE definition.validator

\* the validator a custom component uses in the context c: propertyValidator
\* then validator for a property shape, nodeValidator then validator otherwise
choose_validator(definition, c) ==
    IF c.source_shape.kind = "PropertyShape"
    THEN IF definition.property_validator # None THEN definition.property_validator
         ELSE definition.validator
    ELSE IF definition.node_validator # None THEN definition.node_validator
         ELSE definition.validator

RECURSIVE AskLoop_inverted(_, _, _, _, _, _, _)
\* the loop of an ASK validator with a Fail for the value nodes the query
\* answers true for
AskLoop_inverted(value_nodes, i, validator, definition, component_id, c, oracle) ==
    IF i > Len(value_nodes) THEN Ok(<<>>)
    ELSE IF oracle.failed THEN Err("SPARQL query failed: " \o oracle.error)
    ELSE LET rest == AskLoop_inverted(value_nodes, i + 1, validator, definition,
                                      component_id, c, oracle)
             message == TermToString(validator.messages[1])
         IN IF ~oracle.ask[value_nodes[i]] \/ ~rest.ok THEN rest
            ELSE Ok(<<Fail(c, component_id, Some(value_nodes[i]), message, None)>>
                    \o rest.results)

RECURSIVE AskLoop(_, _, _, _, _, _, _)
\* the loop of an ASK validator over the value nodes: a Fail for every value
\* node the query answers false for; oracle.ask[v] is the answer for ?value = v
AskLoop(value_nodes, i, validator, definition, component_id, c, oracle) ==
    IF i > Len(value_nodes) THEN Ok(<<>>)
    ELSE IF oracle.failed THEN Err("SPARQL query failed: " \o oracle.error)
    ELSE LET rest == AskLoop(value_nodes, i + 1, validator, definition,
                             component_id, c, oracle)
             message == TermToString(validator.messages[1])
         IN IF oracle.ask[value_nodes[i]] \/ ~rest.ok THEN rest
            ELSE Ok(<<Fail(c, component_id, Some(value_nodes[i]), message, None)>>
                    \o rest.results)

RECURSIVE SelectLoop(_, _, _, _, _, _, _, _)
\* the loop of a SELECT validator over the solutions: ?failure = true ends the
\* component with an error; a solution whose failed value node was seen is skipped
SelectLoop(sols, i, validator, definition, component_id, c, seen, acc) ==
    IF i > Len(sols) THEN Ok(acc)
    ELSE IF Get(sols[i], "failure") = Some(TypedLiteral("true", XSD_BOOLEAN))
    THEN Err("SPARQL validator reported a failure.")
    ELSE LET solution == sols[i]
             failed_value_node ==
                 IF Get(solution, "value") # None THEN Get(solution, "value")
                 ELSE IF c.source_shape.kind = "NodeShape" THEN Some(c.focus_node)
                 ELSE None
             template ==
                 IF Get(solution, "message") # None
                 THEN TermToString(Get(solution, "message")[1])
                 ELSE TermToString(validator.messages[1])
             message == SubstituteMessage(template, solution, 1)
             result_path_override ==
                 IF Get(solution, "path") # None /\ ~IsLiteral(Get(solution, "path")[1])
                 THEN Some(Simple(Get(solution, "path")[1]))
                 ELSE None
         IN IF failed_value_node \in seen
            THEN SelectLoop(sols, i + 1, validator, definition, component_id, c, seen, acc)
            ELSE SelectLoop(sols, i + 1, validator, definition, component_id, c,
                     seen \cup {failed_value_node},
                     Append(acc, Fail(c, component_id, failed_value_node, message,
                                      result_path_override)))

\* the parameters of the component that the query of the validator mentions
MentionedParameters(self, validator) ==
    {name \in DOMAIN self.parameter_values : name \in validator.query.mentions}

\* the variables the validator pre-binds: $this, $currentShape and $shapesGraph
\* and the parameters when the query mentions them, ?value for an ASK query
\* that mentions it
PreboundVars(self, validator) ==
    (validator.query.mentions \cap {"this", "currentShape", "shapesGraph"})
    \cup MentionedParameters(self, validator)
    \cup (IF validator.is_ask THEN validator.query.mentions \cap {"value"} ELSE {})
OptionalPreboundVars(validator) ==
    validator.query.mentions \cap {"currentShape", "shapesGraph"}

\* the prefixes the text of a query uses in prefixed names
UsedPrefixes(query) == IF "uses" \in DOMAIN query THEN query.uses ELSE {}

\* AlgebraQuery::parse of the query under the PREFIX lines of the validator:
\* the algebra, or None when the text or one of its prefixed names does not parse
ParsedWithPrefixes(validator) ==
    IF UsedPrefixes(validator.query) \subseteq {e.prefix : e \in validator.prefixes}
    THEN validator.query.parsed ELSE None

\* CustomConstraintComponent::validate with the chosen validator; oracle holds
\* what the store answers to each query with the substitutions of the context:
\* oracle.select[id] for the SELECT query id, oracle.ask[v] for ?value = v
CustomValidateWith(validator, self, component_id, c, oracle) ==
    IF validator = None THEN Ok(<<>>)
    ELSE LET v == validator[1]
             unset == {name \in MentionedParameters(self, v) :
                           self.parameter_values[name] = <<>>}
             context_label ==
                 (IF v.is_ask THEN "SPARQL ASK validator " ELSE "SPARQL SELECT validator ")
                 \o self.definition.iri
             checked == IF ParsedWithPrefixes(v) = None THEN Accept
                        ELSE ensure_pre_binding_semantics(
                                 [pattern |-> ParsedWithPrefixes(v)[1]], context_label,
                                 PreboundVars(self, v), OptionalPreboundVars(v))
         IN IF unset # {}
            THEN Err("Custom constraint " \o self.definition.iri
                     \o " is missing a value for parameter "
                     \o (CHOOSE name \in unset : TRUE)
                     \o " needed by its SPARQL query.")
            ELSE IF ParsedWithPrefixes(v) = None
            THEN Err("Failed to parse SPARQL validator query: syntax error")
            ELSE IF ~checked.ok THEN Err(checked.error)
            ELSE IF v.is_ask
            THEN IF c.value_nodes = None THEN Ok(<<>>)
                 ELSE AskLoop(c.value_nodes[1], 1, v, self.definition, component_id,
                              c, oracle)
            ELSE IF oracle.failed THEN Err("SPARQL query failed: " \o oracle.error)
            ELSE SelectLoop(oracle.select[v.query.id], 1, v, self.definition,
                            component_id, c, {}, <<>>)

\* CustomConstraintComponent::validate
CustomConstraint_validate(self, component_id, c, oracle) ==
    CustomValidateWith(choose_validator(self.definition, c), self, component_id,
                       c, oracle)

-----------------------------------------------------------------------------
(* The report builder driven through its interface *)

FocusNodes == {"ex:a", "ex:b"}
Messages == {"m1", "m2"}

\* the execution traces of the contexts handed to add_error
Traces ==
    {<<>>,
     <<TraceItem("NodeShape", 1), TraceItem("Component", 1)>>,
     <<TraceItem("NodeShape", 1), TraceItem("PropertyShape", 2),
       TraceItem("Component", 2)>>}

Contexts ==
    {[focus_node |-> f, value_nodes |-> Some(<<f>>),
      source_shape |-> SourceShapeNode(1), execution_trace |-> t] :
        f \in FocusNodes, t \in Traces}

InitReport ==
    /\ store = {}
    /\ node_shapes = <<>>
    /\ stats = 0
    /\ results = <<>>
    /\ graph = {}
    /\ validated = {}
    /\ op = [name |-> "new"]
    /\ input = <<>>

AddError ==
    /\ Len(results) < MaxResults
    /\ \E c \in Contexts, e \in Messages :
          /\ results' = add_error(results, c, e)
          /\ op' = [name |-> "add_error"]
    /\ UNCHANGED <<store, node_shapes, stats, graph, validated, input>>

ToGraph ==
    /\ graph' = to_graph(results)
    /\ op' = [name |-> "to_graph"]
    /\ UNCHANGED <<store, node_shapes, stats, results, validated, input>>

NextReport == AddError \/ ToGraph

SpecReport == InitReport /\ [][NextReport]_vars

\* ValidationReportBuilder::dump: the entries grouped by focus node, each group
\* in the order of the list; the groups are printed in the order of a HashMap
dump(rs) ==
    [f \in {rs[i].context.focus_node : i \in 1..Len(rs)} |->
        SelectSeq(rs, LAMBDA r : r.context.focus_node = f)]

\* the contexts a caller of the builder holds
BuilderContexts ==
    {c \in Contexts : c.focus_node = "ex:a" \/ c.execution_trace = <<>>}

InitBuilder ==
    /\ store = {}
    /\ node_shapes = <<>>
    /\ stats = 0
    /\ results = <<>>
    /\ graph = {}
    /\ validated = {}
    /\ op = [name |-> "new"]
    /\ input \in [context : BuilderContexts]

\* add_error with the caller's context; stats counts the calls
BuilderAddError ==
    /\ Len(results) < MaxResults
    /\ \E e \in Messages :
          /\ results' = add_error(results, input.context, e)
          /\ op' = [name |-> "add_error", context |-> input.context, error |-> e]
    /\ stats' = stats + 1
    /\ UNCHANGED <<store, node_shapes, graph, validated, input>>

\* the caller goes on with its context: another focus node or a longer trace
ChangeContext ==
    /\ \E c \in BuilderContexts \ {input.context} : input' = [context |-> c]
    /\ op' = [name |-> "caller"]
    /\ UNCHANGED <<store, node_shapes, stats, results, graph, validated>>

\* ValidationReportBuilder::results
BuilderResults ==
    /\ op' = [name |-> "results", value |-> results]
    /\ UNCHANGED <<store, node_shapes, stats, results, graph, validated, input>>

\* ValidationReportBuilder::to_graph
BuilderToGraph ==
    /\ graph' = to_graph(results)
    /\ op' = [name |-> "to_graph"]
    /\ UNCHANGED <<store, node_shapes, stats, results, validated, input>>

\* ValidationReportBuilder::dump
BuilderDump ==
    /\ op' = [name |-> "dump", output |-> dump(results)]
    /\ UNCHANGED <<store, node_shapes, stats, results, graph, validated, input>>

NextBuilder ==
    \/ BuilderAddError
    \/ ChangeContext
    \/ BuilderResults
    \/ BuilderToGraph
    \/ BuilderDump

SpecBuilder == InitBuilder /\ [][NextBuilder]_vars

\* a step of add_error appends the entry of its arguments after the entries
\* recorded before; every other step leaves the list as it is
AppendOnly ==
    IF op'.name = "add_error"
    THEN /\ Len(results') = Len(results) + 1
         /\ SubSeq(results', 1, Len(results)) = results
         /\ results'[Len(results')] = [context |-> op'.context, error |-> op'.error]
    ELSE results' = results

\* C28: add_error appends one entry holding the context as it was at the call
\* and leaves the earlier entries as they are; a later change of the caller's
\* context, results, to_graph and dump leave the list as it is; the number of
\* entries is the number of add_error calls
C28_BuilderIsAppendOnly ==
    /\ [][AppendOnly]_vars
    /\ [](Len(results) = stats)

\* the builder holds two entries, the caller changed its context after the
\* last add_error, and dump printed both
C28_Witness ==
    /\ op.name = "dump"
    /\ Len(results) = 2
    /\ results[1].context # results[2].context
    /\ results[2].context # input.context

\* the nodes of a report graph typed sh:ValidationResult
ResultNodes(g) == {t[1] : t \in {u \in g : u[2] = RDF_TYPE /\ u[3] = SH_VALIDATION_RESULT}}
\* the nodes of a report graph typed sh:ValidationReport
ReportNodes(g) == {t[1] : t \in {u \in g : u[2] = RDF_TYPE /\ u[3] = SH_VALIDATION_REPORT}}
\* the objects of subject s and predicate p in g
Objects(g, s, p) == {t[3] : t \in {u \in g : u[1] = s /\ u[2] = p}}

\* C1: in the graph to_graph produces, sh:conforms is true iff no failure was
\* recorded, and the graph has no sh:ValidationResult node iff sh:conforms is true
C1_ConformsIffNoFailure ==
    op.name = "to_graph" =>
        \A r \in ReportNodes(graph) :
            /\ Objects(graph, r, SH_CONFORMS) = {BoolLiteral(Len(results) = 0)}
            /\ (ResultNodes(graph) = {}) <=> (Objects(graph, r, SH_CONFORMS) = {"true"})

\* C1 witness: a graph made from a builder holding failures, and one from none
C1_Witness ==
    /\ op.name = "to_graph"
    /\ Len(results) >= 2
    /\ ReportNodes(graph) # {}
    /\ ResultNodes(graph) # {}

\* C2: the graph has one report node with exactly n sh:result links to n distinct
\* nodes typed sh:ValidationResult, and the i-th failure's focus node is on one of them
C2_OneResultPerFailure ==
    op.name = "to_graph" =>
        /\ Cardinality(ReportNodes(graph)) = 1
        /\ \A r \in ReportNodes(graph) :
              /\ Cardinality(Objects(graph, r, SH_RESULT)) = Len(results)
              /\ Objects(graph, r, SH_RESULT) = ResultNodes(graph)
        /\ \E f \in [1..Len(results) -> ResultNodes(graph)] :
              /\ \A i, j \in 1..Len(results) : i # j => f[i] # f[j]
              /\ \A i \in 1..Len(results) :
                    /\ Objects(graph, f[i], SH_FOCUS_NODE) = {results[i].context.focus_node}
                    /\ Objects(graph, f[i], SH_RESULT_MESSAGE)
                          = {SimpleLiteral(results[i].error)}

\* C2 witness: three failures, two of them with the same focus node and message
C2_Witness ==
    /\ op.name = "to_graph"
    /\ Len(results) = 3
    /\ results[1] = results[2]
    /\ results[3].context.focus_node # results[1].context.focus_node
    /\ Cardinality(ResultNodes(graph)) = 3

-----------------------------------------------------------------------------
(* The report of failures with nested execution traces *)

\* the longest list of failures with nested traces the builder is driven to
MaxTraced == 2

\* the severities the shapes graph declares: sh:Warning for the constraint ex:c2
\* and sh:Info for the property shape ex:Q that carries it
SeverityQuads ==
    {Quad(SHAPES_GRAPH, "ex:c2", SH_SEVERITY, SH_WARNING),
     Quad(SHAPES_GRAPH, "ex:Q", SH_SEVERITY, SH_INFO)}

\* the execution traces of the contexts: a component of a node shape, of a
\* property shape with each kind of path, of a node shape reached through a
\* property shape, and of a property shape reached through another
NestedTraces ==
    {<<>>,
     <<TraceItem("NodeShape", 1), TraceItem("Component", 1)>>,
     <<TraceItem("NodeShape", 1), TraceItem("PropertyShape", 2),
       TraceItem("Component", 2)>>,
     <<TraceItem("NodeShape", 1), TraceItem("PropertyShape", 3),
       TraceItem("Component", 1)>>,
     <<TraceItem("NodeShape", 1), TraceItem("PropertyShape", 4),
       TraceItem("Component", 3)>>,
     <<TraceItem("NodeShape", 1), TraceItem("PropertyShape", 1),
       TraceItem("Component", 4), TraceItem("NodeShape", 2),
       TraceItem("Component", 2)>>,
     <<TraceItem("NodeShape", 1), TraceItem("Component", 5),
       TraceItem("PropertyShape", 1), TraceItem("Component", 1)>>,
     <<TraceItem("PropertyShape", 2), TraceItem("Component", 5),
       TraceItem("PropertyShape", 1), TraceItem("Component", 1)>>}

TracedContexts ==
    {[focus_node |-> f, value_nodes |-> Some(<<f>>),
      source_shape |-> SourceShapeNode(1), execution_trace |-> t] :
        f \in FocusNodes, t \in NestedTraces}

InitTrace ==
    /\ store \in SUBSET SeverityQuads
    /\ node_shapes = <<>>
    /\ stats = 0
    /\ results = <<>>
    /\ graph = {}
    /\ validated = {}
    /\ op = [name |-> "new"]
    /\ input = <<>>

AddTraced ==
    /\ Len(results) < MaxTraced
    /\ \E c \in TracedContexts :
          /\ results' = add_error(results, c, "m1")
          /\ op' = [name |-> "add_error"]
    /\ UNCHANGED <<store, node_shapes, stats, graph, validated, input>>

NextTrace == AddTraced \/ ToGraph

SpecTrace == InitTrace /\ [][NextTrace]_vars

\* the ways to give every recorded failure a result node of its own that
\* carries the failure's focus node and message
ResultNodeMaps ==
    {f \in [1..Len(results) -> ResultNodes(graph)] :
        /\ \A i, j \in 1..Len(results) : i # j => f[i] # f[j]
        /\ \A i \in 1..Len(results) :
              /\ Objects(graph, f[i], SH_FOCUS_NODE) = {results[i].context.focus_node}
              /\ Objects(graph, f[i], SH_RESULT_MESSAGE)
                    = {SimpleLiteral(results[i].error)}}

\* the trace of a context as to_graph resolves it: the terms of the innermost
\* shape and component, and the path of the property shape in scope
Resolved(context) ==
    TraceScan(context.execution_trace, Len(context.execution_trace),
        [source_shape |-> None, result_path |-> None,
         source_constraint_component |-> None, g |-> {}, n |-> 0])

\* the severity the shapes graph declares for the constraint that failed in the
\* context: the sh:severity of its innermost component, else that of its
\* innermost shape, else sh:Violation
DeclaredSeverity(st, context) ==
    LET component == Resolved(context).source_constraint_component
        shape == Resolved(context).source_shape
        of_component == IF component = None THEN None
                        ELSE FirstObject(st, component[1], SH_SEVERITY)
        of_shape == IF shape = None THEN None
                    ELSE FirstObject(st, shape[1], SH_SEVERITY)
    IN IF of_component # None THEN of_component[1]
       ELSE IF of_shape # None THEN of_shape[1]
       ELSE SH_VIOLATION

\* C11: every sh:ValidationResult has exactly one sh:resultSeverity, and the
\* result of every failure carries the severity declared for its constraint,
\* sh:Violation when none is declared
C11_SeverityAsDeclared ==
    op.name = "to_graph" =>
        /\ \A n \in ResultNodes(graph) :
              Cardinality(Objects(graph, n, SH_RESULT_SEVERITY)) = 1
        /\ \E f \in ResultNodeMaps :
              \A i \in 1..Len(results) :
                 Objects(graph, f[i], SH_RESULT_SEVERITY)
                    = {DeclaredSeverity(store, results[i].context)}


\* the positions of the trace items of the kinds
Positions(trace, kinds) == {i \in 1..Len(trace) : trace[i].kind \in kinds}

\* the greatest position of a set of positions
Last(ps) == CHOOSE i \in ps : \A j \in ps : j <= i

\* the term of the innermost shape item of a trace, if it has a shape item
InnermostShapeTerm(trace) ==
    LET ps == Positions(trace, {"NodeShape", "PropertyShape"})
    IN IF ps = {} THEN None
       ELSE IF trace[Last(ps)].kind = "NodeShape" THEN NodeShapeTerm(trace[Last(ps)].id)
       ELSE PropShapeTerm(trace[Last(ps)].id)

\* the term of the innermost component item of a trace, if it has one
InnermostComponentTerm(trace) ==
    LET ps == Positions(trace, {"Component"})
    IN IF ps = {} THEN None ELSE ComponentTerm(trace[Last(ps)].id)

\* C13: the result of every failure has as sh:sourceShape the term of the last
\* shape item of the failure's trace and as sh:sourceConstraintComponent the
\* term of its last component item, each at most once and none when the trace
\* has no such item
C13_InnermostTraceItemsWin ==
    op.name = "to_graph" =>
        \E f \in ResultNodeMaps :
            \A i \in 1..Len(results) :
                LET trace == results[i].context.execution_trace IN
                /\ Objects(graph, f[i], SH_SOURCE_SHAPE) = Range(InnermostShapeTerm(trace))
                /\ Objects(graph, f[i], SH_SOURCE_CONSTRAINT_COMPONENT)
                      = Range(InnermostComponentTerm(trace))

\* C13 witness: a report of a failure whose trace has an outer and an inner
\* node shape and an outer and an inner component
C13_Witness ==
    /\ op.name = "to_graph"
    /\ \E i \in 1..Len(results) :
          LET trace == results[i].context.execution_trace IN
          /\ Cardinality(Positions(trace, {"NodeShape"})) = 2
          /\ Cardinality(Positions(trace, {"Component"})) = 2
    /\ \E n \in ResultNodes(graph) :
          /\ Objects(graph, n, SH_SOURCE_SHAPE) = {"ex:Inner"}
          /\ Objects(graph, n, SH_SOURCE_CONSTRAINT_COMPONENT) = {"ex:c2"}

\* a blank node of a report graph
IsBlank(t) == Len(t) >= 2 /\ SubSeq(t, 1, 2) = "_:"

\* the path operators that are written with a predicate of their own
OperatorPredicates ==
    {SH_INVERSE_PATH, SH_ZERO_OR_MORE_PATH, SH_ONE_OR_MORE_PATH, SH_ZERO_OR_ONE_PATH}
OperatorKind(p) ==
    IF p = SH_INVERSE_PATH THEN "Inverse"
    ELSE IF p = SH_ZERO_OR_MORE_PATH THEN "ZeroOrMore"
    ELSE IF p = SH_ONE_OR_MORE_PATH THEN "OneOrMore"
    ELSE "ZeroOrOne"

RECURSIVE ReadList(_, _)
\* the members of the RDF list that starts at node t of graph g
ReadList(g, t) ==
    IF t = RDF_NIL \/ Cardinality(Objects(g, t, RDF_FIRST)) # 1
                   \/ Cardinality(Objects(g, t, RDF_REST)) # 1
    THEN <<>>
    ELSE <<CHOOSE o \in Objects(g, t, RDF_FIRST) : TRUE>>
         \o ReadList(g, CHOOSE o \in Objects(g, t, RDF_REST) : TRUE)

RECURSIVE ReadPath(_, _)
\* the path that the term t of graph g is the RDF serialisation of: an IRI is
\* a simple path, a list a sequence, a blank node with a path predicate the
\* operator of that predicate
ReadPath(g, t) ==
    IF ~IsBlank(t) THEN Simple(t)
    ELSE IF Objects(g, t, RDF_FIRST) # {}
    THEN LET ts == ReadList(g, t) IN Sequence([i \in 1..Len(ts) |-> ReadPath(g, ts[i])])
    ELSE IF Objects(g, t, SH_ALTERNATIVE_PATH) # {}
    THEN LET ts == ReadList(g, CHOOSE o \in Objects(g, t, SH_ALTERNATIVE_PATH) : TRUE)
         IN Alternative([i \in 1..Len(ts) |-> ReadPath(g, ts[i])])
    ELSE LET ps == {p \in OperatorPredicates : Objects(g, t, p) # {}}
             pred == CHOOSE p \in ps : TRUE
         IN IF ps = {} THEN Simple(t)
            ELSE [kind |-> OperatorKind(pred), term |-> "",
                  inner |-> <<ReadPath(g, CHOOSE o \in Objects(g, t, pred) : TRUE)>>]

\* the paths of the property shapes among the items of a trace
PathsInScope(trace) ==
    {prop_shapes[trace[i].id].path : i \in Positions(trace, {"PropertyShape"})}

\* C14: the result of a failure whose trace has a PropertyShape item carries one
\* sh:resultPath, the RDF serialisation of the path of a property shape of the
\* trace (an IRI for a simple path, a list for a sequence, a blank node with the
\* operator's predicate otherwise); the result of a trace without a
\* PropertyShape item carries none
C14_ResultPathWhenPropertyShapeInScope ==
    op.name = "to_graph" =>
        \E f \in ResultNodeMaps :
            \A i \in 1..Len(results) :
                LET trace == results[i].context.execution_trace
                    paths == Objects(graph, f[i], SH_RESULT_PATH)
                IN IF Positions(trace, {"PropertyShape"}) = {} THEN paths = {}
                   ELSE /\ Cardinality(paths) = 1
                        /\ \A t \in paths : ReadPath(graph, t) \in PathsInScope(trace)

-----------------------------------------------------------------------------
(* Target resolution and the optimiser over a store of two named graphs *)

\* the quads the store is filled from: the data graph, and a shapes graph that
\* holds class axioms and statements about the shapes themselves
TargetQuads ==
    {Quad(DATA_GRAPH, "ex:a", RDF_TYPE, "ex:B"),
     Quad(DATA_GRAPH, "ex:b", RDF_TYPE, "ex:C"),
     Quad(DATA_GRAPH, "ex:B", RDFS_SUBCLASSOF, "ex:C"),
     Quad(DATA_GRAPH, "ex:a", "ex:p", "ex:b"),
     Quad(DATA_GRAPH, "ex:b", "ex:p", "ex:b"),
     Quad(SHAPES_GRAPH, "ex:B", RDFS_SUBCLASSOF, "ex:C"),
     Quad(SHAPES_GRAPH, "ex:Outer", "ex:p", "ex:a")}

Targets ==
    {Target("Class", "ex:C"), Target("Class", "ex:B"), Target("Node", "ex:a"),
     Target("SubjectsOf", "ex:p"), Target("ObjectsOf", "ex:p"),
     Target("SubjectsOf", SimpleLiteral("x"))}

\* the target lists of a node shape: at most two targets
TargetLists == {<<>>} \cup {<<t>> : t \in Targets} \cup {<<t, u>> : t, u \in Targets}

InitTarget ==
    /\ store \in SUBSET TargetQuads
    /\ \E ts \in TargetLists :
          node_shapes = [id \in NodeShapeIds |->
              IF id = 1 THEN [targets |-> ts, constraints |-> <<>>]
              ELSE [targets |-> <<Target("Class", "ex:C")>>, constraints |-> <<>>]]
    /\ stats = 0
    /\ results = <<>>
    /\ graph = {}
    /\ validated = {}
    /\ op = [name |-> "parse"]
    /\ input = node_shapes

GetTargetNodes ==
    /\ \E id \in DOMAIN node_shapes :
          \E i \in 1..Len(node_shapes[id].targets) :
              op' = [name |-> "get_target_nodes",
                     target |-> node_shapes[id].targets[i],
                     shape |-> id,
                     contexts |-> get_target_nodes(node_shapes[id].targets[i], store, id)]
    /\ UNCHANGED <<store, node_shapes, stats, results, graph, validated, input>>

\* Optimizer::optimize; when the type query or one of its solutions fails, the
\* ? operator returns the error before any target list is touched
Optimize ==
    /\ op.name # "optimize"
    /\ \E query_fails \in BOOLEAN :
          IF query_fails
          THEN /\ op' = [name |-> "optimize", ok |-> FALSE, before |-> node_shapes,
                          removed |-> stats]
               /\ UNCHANGED <<node_shapes, stats>>
          ELSE /\ node_shapes' = remove_unreachable_targets(node_shapes, store)
               /\ stats' = stats + (SumLen(node_shapes, DOMAIN node_shapes)
                                       - SumLen(node_shapes', DOMAIN node_shapes))
               /\ op' = [name |-> "optimize", ok |-> TRUE, before |-> node_shapes,
                          removed |-> stats]
    /\ UNCHANGED <<store, results, graph, validated, input>>

NextTarget == GetTargetNodes \/ Optimize

SpecTarget == InitTarget /\ [][NextTarget]_vars

\* the focus nodes of a list of contexts
FocusNodesOf(contexts) == {contexts[i].focus_node : i \in 1..Len(contexts)}

\* the focus nodes a target list resolves to
FocusSet(targets, st, id) ==
    UNION {FocusNodesOf(get_target_nodes(targets[i], st, id)) : i \in 1..Len(targets)}

\* C9: Node(t) yields the single focus node t; SubjectsOf(p) yields exactly the
\* subjects of the p-triples of the data graph and ObjectsOf(p) exactly their
\* objects, each once; every context has value_nodes = [focus_node]
C9_TargetsAreDataGraphSets ==
    op.name = "get_target_nodes" =>
        LET t == op.target
            cs == op.contexts
            data == GraphOf(store, DATA_GRAPH)
        IN /\ \A i \in 1..Len(cs) : cs[i].value_nodes = Some(<<cs[i].focus_node>>)
           /\ \A i, j \in 1..Len(cs) : i # j => cs[i].focus_node # cs[j].focus_node
           /\ t.kind = "Node" => FocusNodesOf(cs) = {t.term} /\ Len(cs) = 1
           /\ t.kind = "SubjectsOf" => FocusNodesOf(cs) = SubjectsOfQuery(data, t.term)
           /\ t.kind = "ObjectsOf" => FocusNodesOf(cs) = ObjectsOfQuery(data, t.term)

\* C10: after remove_unreachable_targets every node shape resolves to the focus
\* nodes it resolved to before
C10_OptimiserPreservesFocusNodes ==
    op.name = "optimize" =>
        \A id \in DOMAIN node_shapes :
            FocusSet(node_shapes[id].targets, store, id)
                = FocusSet(input[id].targets, store, id)

\* the target stays: it is no class target, or its class is a type used in the
\* data graph
Reachable(t) ==
    t.kind # "Class" \/ t.term \in TypeQuery(GraphOf(store, DATA_GRAPH))

\* after is before without the targets that do not stay, in the order of before
KeptInOrder(before, after) ==
    \E f \in [1..Len(after) -> 1..Len(before)] :
        /\ \A i, j \in 1..Len(after) : i < j => f[i] < f[j]
        /\ \A i \in 1..Len(after) : after[i] = before[f[i]]
        /\ {f[i] : i \in 1..Len(after)} = {j \in 1..Len(before) : Reachable(before[j])}

\* C27: remove_unreachable_targets leaves of every target list the targets that
\* are no class targets and the class targets of a used type, in their order;
\* the counter grows by the number of targets removed; when the type query
\* fails, every target list and the counter are as before
C27_ExactlyUnreachableClassTargetsRemoved ==
    op.name = "optimize" =>
        IF op.ok
        THEN /\ \A id \in DOMAIN node_shapes :
                    KeptInOrder(op.before[id].targets, node_shapes[id].targets)
             /\ stats = op.removed + (SumLen(op.before, DOMAIN op.before)
                                        - SumLen(node_shapes, DOMAIN node_shapes))
        ELSE node_shapes = op.before /\ stats = op.removed

\* the optimiser removed a class target of one shape and kept one of another
C27_Witness ==
    /\ op.name = "optimize"
    /\ op.ok
    /\ stats > 0
    /\ \E id \in DOMAIN node_shapes :
          /\ Len(node_shapes[id].targets) = Len(op.before[id].targets)
          /\ \E i \in 1..Len(node_shapes[id].targets) :
                node_shapes[id].targets[i].kind = "Class"
    /\ \E id \in DOMAIN node_shapes :
          Len(node_shapes[id].targets) = 1 /\ Len(op.before[id].targets) = 2

-----------------------------------------------------------------------------
(* The cardinality components applied to drawn arguments *)

\* the lists of at most n value nodes
RECURSIVE ValueLists(_)
ValueLists(n) ==
    IF n = 0 THEN {<<>>}
    ELSE ValueLists(n - 1)
         \cup {Append(l, v) : l \in {k \in ValueLists(n - 1) : Len(k) = n - 1},
                              v \in FocusNodes}

\* the contexts a component is applied to: no value nodes, or a list of them
ComponentContexts(n) ==
    {[focus_node |-> "ex:a", value_nodes |-> vs,
      source_shape |-> SourceShapeNode(1), execution_trace |-> <<>>] :
        vs \in {None} \cup {Some(l) : l \in ValueLists(n)}}

InitCardinality ==
    /\ store = {}
    /\ node_shapes = <<>>
    /\ stats = 0
    /\ results = <<>>
    /\ graph = {}
    /\ validated = {}
    /\ op = [name |-> "new"]
    /\ input \in [kind : {"MinCount", "MaxCount"}, n : 0..MaxCount,
                  c : ComponentContexts(MaxCount)]

ApplyMinCount ==
    /\ op.name = "new"
    /\ input.kind = "MinCount"
    /\ op' = [name |-> "validate", result |-> MinCount_validate(input.n, input.c)]
    /\ UNCHANGED <<store, node_shapes, stats, results, graph, validated, input>>

ApplyMaxCount ==
    /\ op.name = "new"
    /\ input.kind = "MaxCount"
    /\ op' = [name |-> "validate", result |-> MaxCount_validate(input.n, input.c)]
    /\ UNCHANGED <<store, node_shapes, stats, results, graph, validated, input>>

NextCardinality == ApplyMinCount \/ ApplyMaxCount

SpecCardinality == InitCardinality /\ [][NextCardinality]_vars

\* the number of value nodes of the drawn context, an absent list counting as 0
InputCount == IF input.c.value_nodes = None THEN 0 ELSE Len(input.c.value_nodes[1])

\* C8: MinCount(n) passes iff count >= n and MaxCount(n) passes iff count <= n;
\* MinCount(0) always passes and MaxCount(0) fails iff there is a value node
C8_CardinalityBounds ==
    op.name = "validate" =>
        /\ input.kind = "MinCount" => (op.result.ok <=> InputCount >= input.n)
        /\ input.kind = "MaxCount" => (op.result.ok <=> InputCount <= input.n)
        /\ (input.kind = "MinCount" /\ input.n = 0) => op.result.ok
        /\ (input.kind = "MaxCount" /\ input.n = 0) =>
              (~op.result.ok <=> (input.c.value_nodes # None
                                    /\ input.c.value_nodes[1] # <<>>))

\* C8 witness: MinCount applied at its boundary count = n > 0, where it passes
C8_Witness ==
    /\ op.name = "validate"
    /\ input.kind = "MinCount"
    /\ input.n > 0
    /\ InputCount = input.n
    /\ op.result.ok

-----------------------------------------------------------------------------
(* The Node component applied to drawn shapes, stores and contexts *)

\* the solutions the store returns for the sh:select query of ex:K1
Solution(failure, value) == [failure |-> failure, value |-> value]
SolutionLists ==
    {<<>>, <<Solution(TRUE, None)>>, <<Solution(FALSE, None)>>}
SolutionOracles == [FocusNodes -> SolutionLists]

\* the statements of the shapes graph about the SPARQL constraint ex:K1
ConstraintQuads ==
    {Quad(SHAPES_GRAPH, "ex:K1", SH_DEACTIVATED, "true"),
     Quad(SHAPES_GRAPH, "ex:K1", SH_SELECT, SimpleLiteral("SELECT $this WHERE { .. }"))}

\* the constraint lists of ex:Inner
InnerConstraintLists == {<<>>, <<1>>, <<2>>, <<6>>, <<1, 6>>, <<7>>}

\* the environment the components run in
Env ==
    [shapes |-> node_shapes, store |-> store, solutions |-> input.solutions,
     declarations |-> IF "declarations" \in DOMAIN input THEN input.declarations
                      ELSE <<>>]

InitNode ==
    /\ store \in SUBSET ConstraintQuads
    /\ \E cs \in InnerConstraintLists :
          node_shapes = [id \in NodeShapeIds |-> [targets |-> <<>>, constraints |-> cs]]
    /\ stats = 0
    /\ results = <<>>
    /\ graph = {}
    /\ validated = {}
    /\ op = [name |-> "new"]
    /\ input \in [component : {4, 7}, c : ComponentContexts(MaxValueNodes),
                  solutions : SolutionOracles]

ApplyNode ==
    /\ op.name = "new"
    /\ op' = [name |-> "validate",
              result |-> component_validate(input.component, input.c, Env)]
    /\ UNCHANGED <<store, node_shapes, stats, results, graph, validated, input>>

NextNode == ApplyNode

SpecNode == InitNode /\ [][NextNode]_vars

\* the failures the full validation of node shape id records for the sole focus
\* node v
FullValidation(id, v) ==
    ConstraintLoop(node_shapes[id].constraints, 1,
                   NewContext(v, Some(<<v>>), SourceShapeNode(id)), Env, <<>>).rb

FirstNotConforming(vs, id) ==
    LET failing == {k \in 1..Len(vs) : FullValidation(id, vs[k]) # <<>>}
    IN IF failing = {} THEN None
       ELSE Some(vs[CHOOSE k \in failing : \A l \in failing : k <= l])

-----------------------------------------------------------------------------
(* The validation driver over drawn shapes, stores and query solutions *)

\* the quads the store is filled from: sh:deactivated on the two node shapes and
\* on the SPARQL constraint, its sh:select, and one statement of the data graph
ValidateQuads ==
    ConstraintQuads
    \cup {Quad(SHAPES_GRAPH, "ex:Outer", SH_DEACTIVATED, "true"),
          Quad(SHAPES_GRAPH, "ex:Inner", SH_DEACTIVATED, "true"),
          Quad(DATA_GRAPH, "ex:a", "ex:p", "ex:b")}

OuterTargetLists ==
    {<<Target("Node", "ex:a")>>,
     <<Target("Node", "ex:a"), Target("Node", "ex:b")>>,
     <<Target("SubjectsOf", "ex:p")>>,
     <<Target("Node", "ex:a"), Target("SubjectsOf", "ex:p")>>}
OuterConstraintLists == {<<2>>, <<4>>, <<5>>, <<6>>, <<3, 4>>, <<7, 1>>, <<8>>}
InnerTargetLists == {<<>>, <<Target("Node", "ex:b")>>}

\* the solutions of the sh:select query of ex:K1 for each focus node
ValidateOracles ==
    {[f \in FocusNodes |-> <<>>],
     [f \in FocusNodes |-> IF f = "ex:a" THEN <<Solution(TRUE, None)>> ELSE <<>>],
     [f \in FocusNodes |-> IF f = "ex:b" THEN <<Solution(TRUE, None)>> ELSE <<>>],
     [f \in FocusNodes |-> <<Solution(FALSE, None)>>]}

InitValidate ==
    /\ store \in SUBSET ValidateQuads
    /\ \E ts \in OuterTargetLists, cs \in OuterConstraintLists,
          ti \in InnerTargetLists, ci \in {<<>>, <<2>>, <<6>>} :
          node_shapes = [id \in NodeShapeIds |->
              IF id = 1 THEN [targets |-> ts, constraints |-> cs]
              ELSE [targets |-> ti, constraints |-> ci]]
    /\ stats = 0
    /\ results = <<>>
    /\ graph = {}
    /\ validated = {}
    /\ op = [name |-> "new"]
    /\ input \in [solutions : ValidateOracles]

ValidateNodeShape ==
    \E id \in DOMAIN node_shapes \ validated :
        LET r == NodeShape_validate(id, Env, results) IN
        /\ results' = r.rb
        /\ validated' = validated \cup {id}
        /\ op' = [name |-> "NodeShape::validate", shape |-> id, ok |-> r.ok,
                  before |-> Len(results)]
        /\ UNCHANGED <<store, node_shapes, stats, graph, input>>

ValidatePropertyShape ==
    \E id \in PropShapeIds, f \in FocusNodes :
        LET c == NewContext(f, Some(<<f>>), SourceShapeNode(1))
            r == PropertyShape_validate(id, <<c>>, Env, results) IN
        /\ results' = r.rb
        /\ op' = [name |-> "PropertyShape::validate", shape |-> id, ok |-> r.ok,
                  before |-> Len(results)]
        /\ UNCHANGED <<store, node_shapes, stats, graph, validated, input>>

NextValidate == ValidateNodeShape \/ ValidatePropertyShape

SpecValidate == InitValidate /\ [][NextValidate]_vars

\* sh:deactivated true is stated of the term in the shapes graph
Deactivated(term) == Quad(SHAPES_GRAPH, term, SH_DEACTIVATED, "true") \in store

\* the target contexts of node shape id
TargetContextsOf(id) ==
    Concat([i \in 1..Len(node_shapes[id].targets) |->
                get_target_nodes(node_shapes[id].targets[i], store, id)])

\* SELECT ?vn WHERE { <focus> <path> ?vn } over the data graph
PathValues(focus, path) ==
    LET g == GraphOf(store, DATA_GRAPH) IN
    IF path.kind = "Simple"
    THEN {t[3] : t \in {u \in g : u[1] = focus /\ u[2] = path.term}}
    ELSE {t[1] : t \in {u \in g : u[3] = focus /\ u[2] = path.inner[1].term}}

\* the entries the last operation added to the report builder
NewEntries == {results[i] : i \in (op.before + 1)..Len(results)}

\* C3: validating a deactivated node shape, a deactivated property shape or a
\* shape whose only constraint is a deactivated SPARQL constraint records no failure
C3_DeactivatedRecordsNothing ==
    /\ (op.name = "NodeShape::validate" /\ Deactivated(NodeShapeTerm(op.shape)[1]))
          => NewEntries = {}
    /\ (op.name = "PropertyShape::validate" /\ Deactivated(PropShapeTerm(op.shape)[1]))
          => NewEntries = {}
    /\ (op.name = "NodeShape::validate" /\ node_shapes[op.shape].constraints = <<6>>
          /\ Deactivated("ex:K1")) => NewEntries = {}

\* C29: a node shape records the failure of one constraint for one focus node
\* once, also when several of its targets select the focus node
C29_FocusNodeValidatedOnce ==
    op.name = "NodeShape::validate" =>
        \A i, j \in (op.before + 1)..Len(results) :
            (/\ i # j
             /\ results[i].context.focus_node = results[j].context.focus_node
             /\ results[i].error = results[j].error)
                => \E k \in 1..Len(node_shapes[op.shape].constraints) :
                      \E l \in 1..Len(node_shapes[op.shape].constraints) :
                          /\ k # l
                          /\ node_shapes[op.shape].constraints[k]
                                = node_shapes[op.shape].constraints[l]

\* the inner shape's failures for the value nodes of the target contexts of the
\* shape validated last, when that shape has the constraint Node(ex:Inner)
InnerShapeFailures ==
    IF 4 \in Range(node_shapes[op.shape].constraints)
    THEN UNION {Range(FullValidation(2, c.focus_node)) :
                    c \in Range(TargetContextsOf(op.shape))}
    ELSE {}

\* C5: validating a shape adds to the report builder only outcomes of the
\* shape's own components on its own target contexts, at most one per target
\* and constraint; the failures found inside a shape referenced by a Node
\* constraint are not among them
C5_ConformanceLeavesBuilderAlone ==
    op.name = "NodeShape::validate" =>
        /\ \A e \in NewEntries :
              /\ e.context \in Range(TargetContextsOf(op.shape))
              /\ \E j \in 1..Len(node_shapes[op.shape].constraints) :
                    component_validate(node_shapes[op.shape].constraints[j],
                                       e.context, Env) = Err(e.error)
        /\ Len(results) - op.before
              <= Len(TargetContextsOf(op.shape)) * Len(node_shapes[op.shape].constraints)
        /\ (2 \notin validated) => NewEntries \cap InnerShapeFailures = {}

\* C5 witness: ex:Outer with Node(ex:Inner) was validated on a focus node that
\* ex:Inner fails, and the one entry added is the Node component's outcome
C5_Witness ==
    /\ op.name = "NodeShape::validate"
    /\ op.shape = 1
    /\ node_shapes[1].constraints = <<4>>
    /\ 2 \notin validated
    /\ InnerShapeFailures # {}
    /\ Len(results) = op.before + 1
    /\ results[Len(results)].error = "Value ex:a does not conform to sh:node shape 2"

\* the failures that the components of shape id return, target after target
\* and, for each target, constraint after constraint
ComponentErrors(id) ==
    LET ts == TargetContextsOf(id)
        cs == node_shapes[id].constraints
        outcome(i, j) == component_validate(cs[j], ts[i], Env)
    IN Concat([i \in 1..Len(ts) |->
           Concat([j \in 1..Len(cs) |->
               IF outcome(i, j).ok THEN <<>>
               ELSE <<[context |-> ts[i], error |-> outcome(i, j).error]>>])])

\* C16: validating a node shape adds to the report builder exactly one failure
\* for every focus node and component whose validate returns an error, with the
\* context of that focus node, and an error stops neither the remaining
\* components of the focus node nor the remaining focus nodes
C16_ComponentErrorsDoNotStopTheRun ==
    op.name = "NodeShape::validate" =>
        /\ op.ok
        /\ SubSeq(results, op.before + 1, Len(results)) = ComponentErrors(op.shape)

\* C16 witness: ex:Outer with MinCount 2 and Node(ex:Inner) on the focus nodes
\* ex:a and ex:b, both components failing on both
C16_Witness ==
    /\ op.name = "NodeShape::validate"
    /\ op.shape = 1
    /\ node_shapes[1].constraints = <<3, 4>>
    /\ Len(results) = op.before + 4
    /\ results[op.before + 1].context.focus_node = "ex:a"
    /\ results[op.before + 2].context.focus_node = "ex:a"
    /\ results[op.before + 2].error = "Value ex:a does not conform to sh:node shape 2"
    /\ results[op.before + 4].context.focus_node = "ex:b"

\* sh:sourceShape as to_graph resolves it from the execution trace of a context
SourceShapeOf(context) ==
    TraceScan(context.execution_trace, Len(context.execution_trace),
        [source_shape |-> None, result_path |-> None,
         source_constraint_component |-> None, g |-> {}, n |-> 0]).source_shape

\* C6: when ex:Outer has the property shape ex:P (path ex:p) with Node(ex:Inner)
\* and a value node y of a focus node x does not conform to ex:Inner, the report
\* has a violation with focus node y and sh:sourceShape ex:Inner
C6_InnerViolationOnValueNode ==
    (op.name = "NodeShape::validate" /\ op.shape = 1
        /\ 5 \in Range(node_shapes[1].constraints)) =>
        \A x \in FocusNodesOf(TargetContextsOf(1)) :
            \A y \in PathValues(x, prop_shapes[1].path) :
                FullValidation(2, y) # <<>> =>
                    \E e \in Range(results) :
                        /\ e.context.focus_node = y
                        /\ SourceShapeOf(e.context) = NodeShapeTerm(2)

\* C7: validating a shape with Property(ex:P) records, for every focus node,
\* the failure of every constraint of ex:P on the value nodes of ex:P's path
C7_PropertyDelegates ==
    (op.name = "NodeShape::validate" /\ op.ok
        /\ 5 \in Range(node_shapes[op.shape].constraints)) =>
        \A x \in FocusNodesOf(TargetContextsOf(op.shape)) :
            LET vs == SetToSeq(PathValues(x, prop_shapes[1].path))
                c == [focus_node |-> x, value_nodes |-> Some(vs),
                      source_shape |-> [kind |-> "PropertyShape", id |-> 1],
                      execution_trace |-> <<>>]
            IN \A j \in 1..Len(prop_shapes[1].constraints) :
                  LET r == component_validate(prop_shapes[1].constraints[j], c, Env)
                  IN ~r.ok => \E e \in Range(results) :
                                 e.context.focus_node = x /\ e.error = r.error

-----------------------------------------------------------------------------
(* A custom constraint component applied to drawn definitions, contexts and *)
(* query answers                                                            *)

\* a validator's query: the variables its text mentions and its algebra, or
\* None when the text does not parse
QueryOf(id, mentions, parsed) == [id |-> id, mentions |-> mentions, parsed |-> parsed]

\* ASK { FILTER(?value != $this) }
AskQuery == QueryOf("v", {"this", "value"}, Some(Filter(Atom("Variable"), Leaf("Bgp"))))
\* SELECT $this ?m WHERE { .. } of the nodeValidator
NodeQuery == QueryOf("nv", {"this", "m"}, Some(Project(Leaf("Bgp"), <<"this", "m">>)))
\* the queries of the propertyValidator: SELECT $this ?value ?m WHERE { .. },
\* a text that does not parse, and a query with a VALUES clause
PropertyQueries ==
    {QueryOf("pv", {"this", "value", "m"},
             Some(Project(Filter(Apply("Less", <<Atom("Variable"), Atom("Variable")>>),
                                 Leaf("Bgp")),
                          <<"this", "value", "m">>))),
     QueryOf("pv", {"this"}, None),
     QueryOf("pv", {"this", "value"},
             Some(Project(Binary("Join", Leaf("Bgp"), Leaf("Values")),
                          <<"this", "value">>)))}

\* the sh:message literals declared on the validator nodes
NodeMessage == LangLiteral("nv {?m}", "en")
PropertyMessage == LangLiteral("min {?m} got {$value}", "en")
DeclaredMessages ==
    {[v |-> <<SimpleLiteral("v")>>, nv |-> <<NodeMessage>>, pv |-> d] :
        d \in {<<>>, <<PropertyMessage>>}}

\* the solutions a SELECT query returns
Three == TypedLiteral("3", XSD_INTEGER)
Four == TypedLiteral("4", XSD_INTEGER)
Five == TypedLiteral("5", XSD_INTEGER)
SelectAnswers ==
    {<<>>,
     <<<<Binding("value", Three), Binding("m", Five)>>>>,
     <<<<Binding("value", Three), Binding("m", Five)>>,
       <<Binding("value", Three), Binding("m", Five)>>>>,
     <<<<Binding("value", Three), Binding("m", Five)>>,
       <<Binding("value", Four), Binding("m", Five)>>>>,
     <<<<Binding("m", Five), Binding("message", LangLiteral("own {?m}", "de"))>>>>,
     <<<<Binding("failure", TypedLiteral("true", XSD_BOOLEAN))>>>>}

\* what the store answers: the same solutions for both SELECT queries, or
\* solutions for one of them alone
CustomOracles ==
    {[failed |-> f, error |-> "timeout", ask |-> a, select |-> sel] :
        f \in BOOLEAN,
        a \in {[n \in FocusNodes |-> TRUE], [n \in FocusNodes |-> FALSE],
               [n \in FocusNodes |-> n = "ex:a"]},
        sel \in {[v |-> <<>>, nv |-> l, pv |-> l] : l \in SelectAnswers}
                \cup {[v |-> <<>>, nv |-> <<>>,
                       pv |-> <<<<Binding("value", Three), Binding("m", Five)>>>>],
                      [v |-> <<>>, pv |-> <<>>,
                       nv |-> <<<<Binding("value", Three), Binding("m", Five)>>>>]}}

\* the contexts of a node shape and of a property shape
CustomContexts ==
    {[focus_node |-> "ex:a", value_nodes |-> vs,
      source_shape |-> [kind |-> k, id |-> 1], execution_trace |-> <<>>] :
        vs \in {None, Some(<<"ex:a">>), Some(<<"ex:a", "ex:b">>),
                Some(<<"ex:b", "ex:b">>)},
        k \in {"NodeShape", "PropertyShape"}}

InitCustom ==
    /\ store = {}
    /\ node_shapes = <<>>
    /\ stats = 0
    /\ results = <<>>
    /\ graph = {}
    /\ validated = {}
    /\ op = [name |-> "new"]
    /\ \E declared \in DeclaredMessages, q \in PropertyQueries,
          has \in [{"v", "nv", "pv"} -> BOOLEAN], values \in {<<>>, <<Five>>},
          c \in CustomContexts, oracle \in CustomOracles :
          input =
            [self |->
               [definition |->
                  [iri |-> "ex:MinScore",
                   validator |->
                      IF has["v"] THEN Some(SPARQLValidator(AskQuery, TRUE, declared.v, <<>>))
                      ELSE None,
                   node_validator |->
                      IF has["nv"] THEN Some(SPARQLValidator(NodeQuery, FALSE, declared.nv, <<>>))
                      ELSE None,
                   property_validator |->
                      IF has["pv"] THEN Some(SPARQLValidator(q, FALSE, declared.pv, <<>>))
                      ELSE None],
                parameter_values |-> [m |-> values]],
             declared |-> declared, c |-> c, oracle |-> oracle]

ApplyCustom ==
    /\ op.name = "new"
    /\ op' = [name |-> "validate",
              result |-> CustomConstraint_validate(input.self, 1, input.c, input.oracle)]
    /\ UNCHANGED <<store, node_shapes, stats, results, graph, validated, input>>

NextCustom == ApplyCustom

SpecCustom == InitCustom /\ [][NextCustom]_vars

\* the validator that applies in the drawn context: propertyValidator for a
\* property shape and nodeValidator for a node shape, else validator
Applicable ==
    LET d == input.self.definition
        own == IF input.c.source_shape.kind = "PropertyShape" THEN d.property_validator
               ELSE d.node_validator
    IN IF own # None THEN own ELSE d.validator

\* C20: the component returns what the validator that applies in its context
\* returns: propertyValidator, else validator, for a property shape and
\* nodeValidator, else validator, for a node shape; without such a validator it
\* returns an empty list of results and no error
C20_ValidatorChosenByContext ==
    op.name = "validate" =>
        /\ op.result = CustomValidateWith(Applicable, input.self, 1, input.c, input.oracle)
        /\ Applicable = None => op.result = Ok(<<>>)

\* C20 witness: in a property-shape context a component with validator and
\* nodeValidator, and no propertyValidator, has run validator, whose outcome is
\* not the one of nodeValidator
C20_Witness ==
    /\ op.name = "validate"
    /\ input.c.source_shape.kind = "PropertyShape"
    /\ input.self.definition.property_validator = None
    /\ input.self.definition.node_validator # None
    /\ input.self.definition.validator # None
    /\ op.result = CustomValidateWith(input.self.definition.validator, input.self, 1,
                                      input.c, input.oracle)
    /\ op.result # CustomValidateWith(input.self.definition.node_validator, input.self,
                                      1, input.c, input.oracle)
    /\ op.result.results # <<>>

\* the value nodes of the drawn context, none when it has no list of them
ValueNodesOf(c) == IF c.value_nodes = None THEN <<>> ELSE c.value_nodes[1]

\* C21: an ASK validator that ends without error returns one failure for every
\* value node of the context that the query answers false for, in the order of
\* the value nodes and naming that value node, and nothing for the value nodes
\* it answers true for; a context without value nodes gives no failure
C21_AskFailsTheFalseValueNodes ==
    (op.name = "validate" /\ op.result.ok /\ Applicable # None /\ Applicable[1].is_ask) =>
        LET refused == SelectSeq(ValueNodesOf(input.c),
                                 LAMBDA v : ~input.oracle.ask[v])
        IN /\ Len(op.result.results) = Len(refused)
           /\ \A k \in 1..Len(refused) :
                 /\ op.result.results[k].failed_value_node = Some(refused[k])
                 /\ op.result.results[k].context = input.c

\* C21 witness: of the value nodes ex:a and ex:b the query answers true for
\* ex:a alone, and the one failure names ex:b
C21_Witness ==
    /\ op.name = "validate"
    /\ op.result.ok
    /\ Applicable # None
    /\ Applicable[1].is_ask
    /\ input.c.value_nodes = Some(<<"ex:a", "ex:b">>)
    /\ input.oracle.ask["ex:a"]
    /\ ~input.oracle.ask["ex:b"]
    /\ Len(op.result.results) = 1
    /\ op.result.results[1].failed_value_node = Some("ex:b")

\* C22: the failures that one invocation of the component returns have pairwise
\* distinct failed value nodes, the absent one counting as a value
C22_FailedValueNodesDistinct ==
    (op.name = "validate" /\ op.result.ok) =>
        \A j, k \in 1..Len(op.result.results) :
            j # k => op.result.results[j].failed_value_node
                         # op.result.results[k].failed_value_node

\* the validator the component ran in the drawn context
Chosen == choose_validator(input.self.definition, input.c)

\* the lexical form of a term: the value of a literal, the IRI of a named node
Lexical(t) == IF IsLiteral(t) THEN LiteralValue(t) ELSE t

RECURSIVE SubstituteLexical(_, _, _)
\* the text with {?var} and {$var} replaced by the lexical form bound to var
SubstituteLexical(text, solution, i) ==
    IF i > Len(solution) THEN text
    ELSE SubstituteLexical(
            Replace(Replace(text, "{?" \o solution[i].var \o "}", Lexical(solution[i].term)),
                    "{$" \o solution[i].var \o "}", Lexical(solution[i].term)),
            solution, i + 1)

\* the message templates of a solution: its ?message binding, else the
\* sh:message literals declared on the validator
Templates(solution, declared) ==
    IF Get(solution, "message") # None THEN {Get(solution, "message")[1]}
    ELSE Range(declared)

\* the literal a template gives for a solution: the substituted text with the
\* language tag of the template
MessageLiteral(template, solution) ==
    LET text == SubstituteLexical(LiteralValue(template), solution, 1)
    IN IF LiteralLanguage(template) = "" THEN SimpleLiteral(text)
       ELSE LangLiteral(text, LiteralLanguage(template))

\* the sh:resultMessage objects of the report made from a builder that holds
\* the failure alone
ReportedMessages(failure) ==
    LET g == to_graph(add_error(<<>>, failure.context, failure.message))
    IN UNION {Objects(g, n, SH_RESULT_MESSAGE) : n \in ResultNodes(g)}

\* the value node a solution fails in the drawn context
FailedValueNode(solution) ==
    IF Get(solution, "value") # None THEN Get(solution, "value")
    ELSE IF input.c.source_shape.kind = "NodeShape" THEN Some(input.c.focus_node)
    ELSE None

\* C12: the failure of each solution of a SELECT validator is reported with the
\* message template (the ?message binding, else the declared sh:message) in
\* which every {?var} and {$var} is replaced by the lexical value bound to var,
\* under the language tag of the template
C12_MessageTemplateSubstituted ==
    (op.name = "validate" /\ op.result.ok /\ Chosen # None /\ ~Chosen[1].is_ask) =>
        \A k \in 1..Len(op.result.results) :
            LET failure == op.result.results[k]
                sols == input.oracle.select[Chosen[1].query.id]
            IN \E i \in 1..Len(sols) :
                  /\ FailedValueNode(sols[i]) = failure.failed_value_node
                  /\ \A t \in Templates(sols[i], input.declared[Chosen[1].query.id]) :
                        ReportedMessages(failure) = {MessageLiteral(t, sols[i])}

-----------------------------------------------------------------------------
(* The construction of a Validator from two sources, followed by a validation *)

\* the stages of Validator::from_sources, in the order of the code; each ends
\* with the ? operator
Stages ==
    <<"Config::build", "OntoEnv::init", "env.add(shapes)", "env.add(data)",
      "skolemize(shapes)", "skolemize(data)", "store.optimize", "run_parser",
      "Optimizer::optimize">>

RECURSIVE RunStages(_, _, _)
\* the stages run one after the other; the first failing one returns its error
RunStages(fails, i, ran) ==
    IF i > Len(Stages) THEN [ok |-> TRUE, error |-> "", ran |-> ran]
    ELSE IF Stages[i] \in fails
    THEN [ok |-> FALSE, error |-> Stages[i], ran |-> Append(ran, Stages[i])]
    ELSE RunStages(fails, i + 1, Append(ran, Stages[i]))

\* Validator::from_sources; fails are the stages that fail on the given sources
from_sources(fails) == RunStages(fails, 1, <<>>)

\* the sh:select texts of the SPARQL constraint ex:K1 in the shapes source
SelectTexts ==
    {SimpleLiteral("SELECT $this WHERE { .. }"), SimpleLiteral("SELECT $this WHERE {")}

\* the store after the two sources were loaded
LoadedQuads(select) ==
    {Quad(SHAPES_GRAPH, "ex:K1", SH_SELECT, select),
     Quad(DATA_GRAPH, "ex:a", "ex:p", "ex:b")}

\* the node shapes of the shapes source: ex:Outer targets ex:a and ex:b
ParsedShapes(constraints) ==
    [id \in NodeShapeIds |->
        IF id = 1
        THEN [targets |-> <<Target("Node", "ex:a"), Target("Node", "ex:b")>>,
              constraints |-> constraints]
        ELSE [targets |-> <<>>, constraints |-> <<>>]]

\* the constraint lists of ex:Outer in the shapes source
PipelineConstraintLists == {<<6>>, <<1>>, <<6, 1>>}

\* the sets of stages that fail on the sources
FailingStages == {S \in SUBSET Range(Stages) : Cardinality(S) <= 2}

InitPipeline ==
    /\ store = {}
    /\ node_shapes = ParsedShapes(<<>>)
    /\ stats = 0
    /\ results = <<>>
    /\ graph = {}
    /\ validated = {}
    /\ op = [name |-> "new"]
    /\ input \in [fails : FailingStages, select : SelectTexts,
                  constraints : PipelineConstraintLists,
                  solutions : ValidateOracles]

\* Validator::from_sources: the store and the shapes belong to the Validator,
\* which exists only when every stage succeeded
FromSources ==
    /\ op.name = "new"
    /\ LET r == from_sources(input.fails) IN
          /\ op' = [name |-> "from_sources", ok |-> r.ok, error |-> r.error,
                    ran |-> r.ran]
          /\ store' = IF r.ok THEN LoadedQuads(input.select) ELSE store
          /\ node_shapes' = IF r.ok THEN ParsedShapes(input.constraints)
                            ELSE node_shapes
    /\ UNCHANGED <<stats, results, graph, validated, input>>

\* Validator::validate on the Validator that from_sources returned
PipelineValidate ==
    /\ op.name = "from_sources"
    /\ op.ok
    /\ LET r == NodeShape_validate(1, Env, results) IN
          /\ results' = r.rb
          /\ validated' = validated \cup {1}
          /\ op' = [name |-> "validate", ok |-> r.ok, error |-> r.error,
                    ran |-> op.ran]
    /\ UNCHANGED <<store, node_shapes, stats, graph, input>>

\* ValidationReport::to_graph on the report that validate returned
PipelineReport ==
    /\ op.name = "validate"
    /\ graph' = to_graph(results)
    /\ op' = [op EXCEPT !.name = "to_graph"]
    /\ UNCHANGED <<store, node_shapes, stats, results, validated, input>>

NextPipeline == FromSources \/ PipelineValidate \/ PipelineReport

SpecPipeline == InitPipeline /\ [][NextPipeline]_vars

\* the sources hold a configuration or parse error: a stage fails on them, or
\* the SPARQL constraint that the shape uses has a query that does not parse
HasConfigurationError ==
    \/ input.fails # {}
    \/ /\ 6 \in Range(input.constraints)
       /\ ~AlgebraQuery_parse(LiteralValue(input.select)).ok

\* C15: when the sources hold a configuration or parse error, from_sources
\* returns one error and no Validator: the failing stage is the last one that
\* ran, no validation takes place and no report graph is produced
C15_ConstructorAborts ==
    (op.name # "new" /\ HasConfigurationError) =>
        /\ op.name = "from_sources"
        /\ ~op.ok
        /\ op.error = op.ran[Len(op.ran)]
        /\ results = <<>>
        /\ graph = {}

-----------------------------------------------------------------------------
(* The pre-binding analyser applied to drawn queries *)

\* the depth of the drawn graph patterns
MaxDepth == 2

BgpLeaf == Leaf("Bgp")
VariableAtom == Atom("Variable")

\* NOT EXISTS { p }
NotExists(p) == Apply("Not", <<Exists(p)>>)

\* an aggregate of a Group, (variable, aggregate)
Aggregate(variable, aggregate) == [variable |-> variable, aggregate |-> aggregate]

\* the graph patterns that hold p one level down: in a wrapper, as an operand,
\* or as the pattern of an EXISTS in one of the expressions
Around(p) ==
    <<Unary("Graph", p), Unary("Distinct", p), Unary("Reduced", p),
      Unary("Slice", p), Unary("Service", p),
      Binary("Join", p, BgpLeaf), Binary("Union", BgpLeaf, p),
      Binary("Lateral", p, BgpLeaf), Binary("Minus", BgpLeaf, p),
      Filter(Exists(p), BgpLeaf), Filter(NotExists(p), BgpLeaf),
      Filter(VariableAtom, p),
      LeftJoin(BgpLeaf, p, <<>>), LeftJoin(BgpLeaf, BgpLeaf, <<Exists(p)>>),
      Extend(p, "this", VariableAtom), Extend(p, "x", VariableAtom),
      Extend(BgpLeaf, "x", Exists(p)),
      Group(p, <<Aggregate("this", CountSolutions)>>),
      Group(p, <<Aggregate("x", CountSolutions)>>),
      Group(BgpLeaf, <<Aggregate("x", AggregateCall(Exists(p)))>>),
      Project(p, <<"x">>), Project(p, <<"this">>), Project(p, <<"this", "value">>),
      OrderBy(p, <<VariableAtom>>), OrderBy(BgpLeaf, <<Exists(p)>>)>>

\* the ways to go one level down, and the lists of n of them at most
Ways == DOMAIN Around(BgpLeaf)
WayLists(n) == UNION {[1..d -> Ways] : d \in 0..n}

RECURSIVE Nest(_, _, _)
\* the graph pattern that holds p below the levels ws[i], ws[i + 1], ..
Nest(ws, i, p) ==
    IF i > Len(ws) THEN p ELSE Nest(ws, i + 1, Around(p)[ws[i]])

\* the algebra of a SELECT query: the root projection, under DISTINCT, REDUCED
\* or a slice
SelectRoots(p) ==
    LET root == {Project(p, vs) : vs \in {<<"x">>, <<"this">>}}
    IN root \cup {Unary(k, r) : k \in {"Distinct", "Reduced", "Slice"}, r \in root}

\* AlgebraQuery::Ask with a pattern of depth MaxDepth at most
AskQueries(ws, leaf) == {[form |-> "Ask", pattern |-> Nest(ws, 1, leaf)]}

\* AlgebraQuery::Select with a pattern of depth MaxDepth at most under its root
SelectQueries(ws, leaf) ==
    IF Len(ws) = MaxDepth THEN {}
    ELSE {[form |-> "Select", pattern |-> r] : r \in SelectRoots(Nest(ws, 1, leaf))}

\* the pre-bound variables of a validator and the optional ones among them
PreBindings ==
    {[prebound |-> {"this"}, optional |-> {}],
     [prebound |-> {"this", "currentShape"}, optional |-> {"currentShape"}],
     [prebound |-> {"this", "value"}, optional |-> {}]}

InitPreBinding ==
    /\ store = {}
    /\ node_shapes = <<>>
    /\ stats = 0
    /\ results = <<>>
    /\ graph = {}
    /\ validated = {}
    /\ op = [name |-> "new"]
    /\ \E ws \in WayLists(MaxDepth), leaf \in {BgpLeaf, Leaf("Values"), Leaf("Path")} :
          input \in [query : AskQueries(ws, leaf) \cup SelectQueries(ws, leaf),
                      vars : PreBindings]

Analyse ==
    /\ op.name = "new"
    /\ op' = [name |-> "ensure_pre_binding_semantics",
              result |-> ensure_pre_binding_semantics(input.query, "SPARQL validator",
                             input.vars.prebound, input.vars.optional)]
    /\ UNCHANGED <<store, node_shapes, stats, results, graph, validated, input>>

NextPreBinding == Analyse

SpecPreBinding == InitPreBinding /\ [][NextPreBinding]_vars

RECURSIVE PatternsIn(_)
RECURSIVE ExprPatternsIn(_)
\* the graph patterns of an expression: those of its EXISTS patterns
ExprPatternsIn(e) ==
    IF e.kind = "Exists" THEN PatternsIn(e.pattern[1])
    ELSE UNION {ExprPatternsIn(e.args[i]) : i \in 1..Len(e.args)}

\* a graph pattern with all the graph patterns it contains, operands of MINUS
\* and patterns of EXISTS included
PatternsIn(p) ==
    {p}
    \cup UNION {PatternsIn(p.inner[i]) : i \in 1..Len(p.inner)}
    \cup UNION {ExprPatternsIn(p.exprs[i]) : i \in 1..Len(p.exprs)}
    \cup UNION {IF p.aggregates[i].aggregate.kind = "CountSolutions" THEN {}
                ELSE ExprPatternsIn(p.aggregates[i].aggregate.expr[1]) :
                    i \in 1..Len(p.aggregates)}

\* the messages of the three rejections of VALUES, MINUS and SERVICE
ForbiddenMessages ==
    {"SPARQL validator must not contain a VALUES clause.",
     "SPARQL validator must not contain a MINUS clause.",
     "SPARQL validator must not contain a federated query (SERVICE)."}

\* the query holds a VALUES, MINUS or SERVICE pattern somewhere
HasForbidden ==
    \E p \in PatternsIn(input.query.pattern) : p.kind \in {"Values", "Minus", "Service"}

\* C17: a query whose algebra holds a VALUES, MINUS or SERVICE pattern at any
\* place is rejected, and a query that holds none is not rejected with one of
\* the three messages about them
C17_ForbiddenPatternsRejected ==
    op.name = "ensure_pre_binding_semantics" =>
        /\ HasForbidden => ~op.result.ok
        /\ ~HasForbidden => op.result.error \notin ForbiddenMessages

\* C17 witness: a VALUES pattern inside a sub-select inside NOT EXISTS is rejected
C17_Witness ==
    /\ op.name = "ensure_pre_binding_semantics"
    /\ input.query.pattern = Filter(NotExists(Project(Leaf("Values"), <<"this">>)), BgpLeaf)
    /\ input.vars.prebound = {"this"}
    /\ op.result.error = "SPARQL validator must not contain a VALUES clause."

\* the variables that the Extend and Group patterns of the query assign
Assigned ==
    UNION {IF p.kind = "Extend" THEN {p.variables[1]}
           ELSE {p.aggregates[i].variable : i \in 1..Len(p.aggregates)} :
               p \in PatternsIn(input.query.pattern)}

\* the messages of the rejection of an assignment to a pre-bound variable
ReassignMessages ==
    {"SPARQL validator must not reassign the pre-bound variable ?" \o v \o "." :
         v \in {"this", "currentShape", "value", "x"}}

\* C18: a query in which an Extend or a Group aggregate assigns a pre-bound
\* variable, at any depth, is rejected, and a query whose assignments are all to
\* other variables is not rejected with the message about a reassignment
C18_ReassignmentRejected ==
    op.name = "ensure_pre_binding_semantics" =>
        /\ Assigned \cap input.vars.prebound # {} => ~op.result.ok
        /\ Assigned \cap input.vars.prebound = {}
              => op.result.error \notin ReassignMessages

\* C18 witness: a Group that assigns ?this inside a union is rejected with the
\* message about the reassignment
C18_Witness ==
    /\ op.name = "ensure_pre_binding_semantics"
    /\ input.query.form = "Ask"
    /\ input.query.pattern =
           Binary("Union", BgpLeaf, Group(BgpLeaf, <<Aggregate("this", CountSolutions)>>))
    /\ op.result.error = "SPARQL validator must not reassign the pre-bound variable ?this."

RECURSIVE RootProjection(_)
\* the root projection of a SELECT query, under its Distinct, Reduced, Slice
\* and OrderBy wrappers
RootProjection(p) ==
    IF p.kind \in {"Distinct", "Reduced", "Slice", "OrderBy"}
    THEN RootProjection(p.inner[1])
    ELSE IF p.kind = "Project" THEN {p} ELSE {}

\* the sub-selects: every Project below the root projection of a SELECT query
\* and every Project of the pattern of an ASK query
NonRootProjects ==
    LET all == {p \in PatternsIn(input.query.pattern) : p.kind = "Project"}
    IN IF input.query.form = "Ask" THEN all
       ELSE {p \in UNION {PatternsIn(r.inner[1]) :
                              r \in RootProjection(input.query.pattern)} :
                 p.kind = "Project"}

\* some sub-select omits a pre-bound variable that is not optional
HidesPreBinding ==
    \E p \in NonRootProjects :
        Hidden(p.variables, input.vars.prebound, input.vars.optional) # {}

\* C19: a query without VALUES, MINUS, SERVICE and without an assignment to a
\* pre-bound variable is rejected iff one of its sub-selects omits a pre-bound
\* variable that is not optional; the root projection of a SELECT query is
\* exempt and every Project of an ASK query is a sub-select
C19_SubSelectsProjectPreBindings ==
    (/\ op.name = "ensure_pre_binding_semantics"
     /\ ~HasForbidden
     /\ Assigned \cap input.vars.prebound = {})
        => (~op.result.ok <=> HidesPreBinding)

-----------------------------------------------------------------------------
(* The prefixes of SPARQL constraints and validators over drawn declarations *)

\* the number of prefix declarations met in the store
MaxDeclarations == 3

\* the declarations of the shapes graph: ex: with two namespaces, rdf:, and a
\* declaration without sh:namespace
Declarations ==
    {Declaration(Some("ex"), Some("urn:a")), Declaration(Some("ex"), Some("urn:b")),
     Declaration(Some("rdf"), Some("urn:r")), Declaration(Some("ex"), None)}

\* the declarations in the orders the store may give them
DeclarationLists(n) == UNION {[1..k -> Declarations] : k \in 0..n}

\* the context of the focus node ex:a of a node shape
PrefixContext == NewContext("ex:a", Some(<<"ex:a">>), SourceShapeNode(1))

InitPrefixes ==
    /\ store = {Quad(SHAPES_GRAPH, "ex:K1", SH_SELECT,
                     SimpleLiteral("SELECT $this WHERE { .. }"))}
    /\ node_shapes = ParsedShapes(<<6>>)
    /\ stats = 0
    /\ results = <<>>
    /\ graph = {}
    /\ validated = {}
    /\ op = [name |-> "new"]
    /\ input \in [declarations : DeclarationLists(MaxDeclarations),
                  uses : {{}, {"ex"}},
                  solutions : {[f \in FocusNodes |-> <<>>],
                               [f \in FocusNodes |-> <<Solution(FALSE, None)>>]},
                  answer : BOOLEAN]

\* SPARQLConstraintComponent::validate of ex:K1 on the focus node ex:a
ConstraintWithPrefixes ==
    /\ op.name = "new"
    /\ op' = [name |-> "SPARQLConstraintComponent::validate",
              result |-> SparqlConstraint_validate("ex:K1", 6, PrefixContext, Env)]
    /\ UNCHANGED <<store, node_shapes, stats, results, graph, validated, input>>

\* the custom component whose sh:validator parse_validator read under the
\* declarations of the store, the query using the prefixes input.uses
PrefixComponent ==
    [definition |->
        [iri |-> "ex:MinScore",
         validator |-> Some(SPARQLValidator([uses |-> input.uses] @@ AskQuery, TRUE,
                                            <<>>, input.declarations)),
         node_validator |-> None, property_validator |-> None],
     parameter_values |-> [m |-> <<>>]]

\* CustomConstraintComponent::validate of that component on the focus node ex:a
ValidatorWithPrefixes ==
    /\ op.name = "new"
    /\ op' = [name |-> "CustomConstraintComponent::validate",
              result |-> CustomConstraint_validate(PrefixComponent, 1, PrefixContext,
                             [failed |-> FALSE, error |-> "",
                              ask |-> [n \in FocusNodes |-> input.answer],
                              select |-> [v |-> <<>>, nv |-> <<>>, pv |-> <<>>]])]
    /\ UNCHANGED <<store, node_shapes, stats, results, graph, validated, input>>

NextPrefixes == ConstraintWithPrefixes \/ ValidatorWithPrefixes

SpecPrefixes == InitPrefixes /\ [][NextPrefixes]_vars

\* two of the declarations give one prefix two different namespaces
PrefixConflict ==
    \E i, j \in 1..Len(input.declarations) :
        LET d == input.declarations[i]
            e == input.declarations[j]
        IN /\ d.prefix # None /\ d.namespace # None
           /\ e.prefix # None /\ e.namespace # None
           /\ d.prefix = e.prefix
           /\ d.namespace # e.namespace

\* every declaration has its sh:prefix and its sh:namespace
WellFormedDeclarations ==
    \A i \in 1..Len(input.declarations) :
        input.declarations[i].prefix # None /\ input.declarations[i].namespace # None

\* C23: when the declarations give one prefix two different namespaces, the
\* validation of the SPARQL constraint and of the custom component's validator
\* ends in an error, the query not being run; well-formed declarations without
\* such a conflict, one prefix declared twice with one namespace among them, are
\* accepted
C23_PrefixConflictIsAnError ==
    op.name # "new" =>
        /\ PrefixConflict => ~op.result.ok
        /\ (~PrefixConflict /\ WellFormedDeclarations /\ input.uses = {}) => op.result.ok

-----------------------------------------------------------------------------
(* The SPARQL rendering of paths *)

RECURSIVE to_sparql_path(_)
RECURSIVE JoinPaths(_, _, _)
\* the loop of to_sparql_path over the members of a sequence or an alternative,
\* and the join of their renderings with the separator
JoinPaths(paths, i, separator) ==
    IF i > Len(paths) THEN [ok |-> TRUE, error |-> "", value |-> ""]
    ELSE LET head == to_sparql_path(paths[i])
             rest == JoinPaths(paths, i + 1, separator)
         IN IF ~head.ok THEN head
            ELSE IF ~rest.ok THEN rest
            ELSE [ok |-> TRUE, error |-> "",
                  value |-> head.value
                            \o (IF i < Len(paths) THEN separator ELSE "") \o rest.value]

\* Path::to_sparql_path
to_sparql_path(path) ==
    LET inner_sparql == to_sparql_path(path.inner[1])
        wrap(before, r, after) ==
            IF r.ok THEN [r EXCEPT !.value = before \o r.value \o after] ELSE r
    IN
    IF path.kind = "Simple"
    THEN IF ~IsLiteral(path.term)
         THEN [ok |-> TRUE, error |-> "", value |-> "<" \o path.term \o ">"]
         ELSE [ok |-> FALSE, error |-> "Simple path must be an IRI", value |-> ""]
    ELSE IF path.kind = "Inverse" THEN wrap("^", inner_sparql, "")
    ELSE IF path.kind \in {"Sequence", "Alternative"}
    THEN IF Len(path.inner) < 2
         THEN [ok |-> FALSE, value |-> "",
               error |-> path.kind \o " path must have at least two elements, found "
                         \o ToString(Len(path.inner))]
         ELSE wrap("(", JoinPaths(path.inner, 1,
                                  IF path.kind = "Sequence" THEN " / " ELSE " | "), ")")
    ELSE IF path.kind = "ZeroOrMore" THEN wrap("", inner_sparql, "*")
    ELSE IF path.kind = "OneOrMore" THEN wrap("", inner_sparql, "+")
    ELSE wrap("", inner_sparql, "?")

\* the depth of the drawn paths
MaxPathDepth == 2

\* the leaves of the drawn paths: two IRIs and a literal
PathLeaves == {Simple("ex:p"), Simple("ex:q"), Simple(SimpleLiteral("p"))}

\* the paths that hold p one level down
AroundPath(p) ==
    <<Inverse(p), ZeroOrMore(p), OneOrMore(p), ZeroOrOne(p),
      Sequence(<<p, Simple("ex:q")>>), Sequence(<<Simple("ex:p"), p>>),
      Alternative(<<p, Simple("ex:q")>>), Sequence(<<p>>)>>

RECURSIVE NestPath(_, _, _)
\* the path that holds p below the levels ws[i], ws[i + 1], ..
NestPath(ws, i, p) ==
    IF i > Len(ws) THEN p ELSE NestPath(ws, i + 1, AroundPath(p)[ws[i]])

\* the paths of depth MaxPathDepth at most
Paths ==
    {NestPath(ws, 1, leaf) :
        ws \in UNION {[1..d -> DOMAIN AroundPath(Simple("ex:p"))] : d \in 0..MaxPathDepth},
        leaf \in PathLeaves}

InitPath ==
    /\ store = {}
    /\ node_shapes = <<>>
    /\ stats = 0
    /\ results = <<>>
    /\ graph = {}
    /\ validated = {}
    /\ op = [name |-> "new"]
    /\ input \in [path : Paths]

ToSparqlPath ==
    /\ op.name = "new"
    /\ op' = [name |-> "to_sparql_path", result |-> to_sparql_path(input.path)]
    /\ UNCHANGED <<store, node_shapes, stats, results, graph, validated, input>>

NextPath == ToSparqlPath

SpecPath == InitPath /\ [][NextPath]_vars

RECURSIVE WellFormedPath(_)
\* the leaves are IRIs and every sequence and alternative has two members at least
WellFormedPath(path) ==
    IF path.kind = "Simple" THEN ~IsLiteral(path.term)
    ELSE /\ path.kind \in {"Sequence", "Alternative"} => Len(path.inner) >= 2
         /\ \A i \in 1..Len(path.inner) : WellFormedPath(path.inner[i])

\* C24: a well-formed path is rendered, and no other well-formed path has the
\* same rendering, as it must be for a parser to give back the path from it
C24_RenderingDeterminesThePath ==
    (op.name = "to_sparql_path" /\ WellFormedPath(input.path)) =>
        /\ op.result.ok
        /\ \A q \in Paths :
              (WellFormedPath(q) /\ q # input.path)
                  => to_sparql_path(q).value # op.result.value

-----------------------------------------------------------------------------
(* The stages of Validator::from_sources and Validator::validate, one by one *)

\* the stage that the code runs after the stages of ran
StageAfter_parser_early(ran) ==
    LET order == <<"Config::build", "OntoEnv::init", "env.add(shapes)", "env.add(data)",
                   "skolemize(shapes)", "run_parser", "skolemize(data)", "store.optimize",
                   "Optimizer::optimize">>
    IN IF Len(ran) < Len(order) THEN order[Len(ran) + 1] ELSE "validate"

StageAfter(ran) == IF Len(ran) < Len(Stages) THEN Stages[Len(ran) + 1] ELSE "validate"

\* the base IRI of the skolem IRIs of a graph
SkolemBase(g) == g \o "/.well-known/skolem/"

\* the term that stands for t after the skolemisation with the base IRI
Skolem(base, t) == IF IsBlank(t) THEN base \o SubSeq(t, 3, Len(t)) ELSE t

\* skolemize: the blank nodes of the graph g of the store are replaced by IRIs
skolemize(st, g, base) ==
    {IF q[1] = g THEN Quad(g, Skolem(base, q[2]), q[3], Skolem(base, q[4])) ELSE q :
        q \in st}

\* the shapes sources: ex:Outer with a class target, with a blank node, or none
ShapesSources ==
    {{},
     {<<"ex:Outer", "sh:targetClass", "ex:C">>},
     {<<"ex:Outer", "sh:targetClass", "ex:C">>, <<"ex:Outer", "sh:property", "_:b1">>,
      <<"_:b1", "sh:path", "ex:p">>}}

\* the data sources: with and without instances of ex:C, with and without blank nodes
DataSources ==
    {{},
     {<<"ex:a", RDF_TYPE, "ex:C">>},
     {<<"ex:a", "ex:p", "_:b1">>},
     {<<"ex:a", "ex:p", "_:b1">>, <<"ex:a", RDF_TYPE, "ex:C">>}}

\* env.add: the triples of a source are loaded into a named graph of the store
env_add(st, g, triples) == st \cup {Quad(g, x[1], x[2], x[3]) : x \in triples}

\* run_parser: the node shapes read from the shapes graph of the store
run_parser(st, constraints) ==
    [id \in NodeShapeIds |->
        IF id = 1
        THEN [targets |->
                  [i \in 1..Len(SetToSeq({q \in st : q[1] = SHAPES_GRAPH
                                                      /\ q[3] = "sh:targetClass"})) |->
                      Target("Class", SetToSeq({q \in st : q[1] = SHAPES_GRAPH
                                                  /\ q[3] = "sh:targetClass"})[i][4])]
                  \o <<Target("Node", "ex:a")>>,
              constraints |-> constraints]
        ELSE [targets |-> <<>>, constraints |-> <<>>]]

InitStages ==
    /\ store = {}
    /\ node_shapes = [id \in NodeShapeIds |-> [targets |-> <<>>, constraints |-> <<>>]]
    /\ stats = 0
    /\ results = <<>>
    /\ graph = {}
    /\ validated = {}
    /\ op = [name |-> "stage", ran |-> <<>>]
    /\ input \in [fail : Range(Stages) \cup {"none"}, shapes : ShapesSources,
                  data : DataSources, constraints : PipelineConstraintLists,
                  select : SelectTexts, solutions : ValidateOracles]

\* one stage of from_sources: it ends the construction with its error (the ?
\* operator) or leaves the store, the shapes and the statistics as given
Stage(name, st, shapes, removed) ==
    /\ op.name = "stage"
    /\ StageAfter(op.ran) = name
    /\ IF input.fail = name
       THEN /\ op' = [name |-> "error", ran |-> Append(op.ran, name)]
            /\ UNCHANGED <<store, node_shapes, stats>>
       ELSE /\ op' = [name |-> "stage", ran |-> Append(op.ran, name)]
            /\ store' = st
            /\ node_shapes' = shapes
            /\ stats' = removed
    /\ UNCHANGED <<results, graph, validated, input>>

ConfigBuild == Stage("Config::build", store, node_shapes, stats)

OntoEnvInit == Stage("OntoEnv::init", store, node_shapes, stats)

AddShapes ==
    Stage("env.add(shapes)",
          env_add(store, SHAPES_GRAPH,
                  input.shapes \cup {<<"ex:K1", SH_SELECT, input.select>>}),
          node_shapes, stats)

AddData == Stage("env.add(data)", env_add(store, DATA_GRAPH, input.data), node_shapes, stats)

SkolemizeShapes ==
    Stage("skolemize(shapes)", skolemize(store, SHAPES_GRAPH, SkolemBase(SHAPES_GRAPH)),
          node_shapes, stats)

SkolemizeData ==
    Stage("skolemize(data)", skolemize(store, DATA_GRAPH, SkolemBase(DATA_GRAPH)),
          node_shapes, stats)

\* store.optimize(): the storage is compacted, the quads stay
StoreOptimize == Stage("store.optimize", store, node_shapes, stats)

RunParser == Stage("run_parser", store, run_parser(store, input.constraints), stats)

OptimizeShapes ==
    LET after == remove_unreachable_targets(node_shapes, store)
    IN Stage("Optimizer::optimize", store, after,
             stats + (SumLen(node_shapes, DOMAIN node_shapes)
                        - SumLen(after, DOMAIN node_shapes)))

\* Validator::validate: every node shape is validated against the store
StagesValidate ==
    /\ op.name = "stage"
    /\ StageAfter(op.ran) = "validate"
    /\ LET r1 == NodeShape_validate(1, Env, results)
           r2 == NodeShape_validate(2, Env, r1.rb)
       IN /\ results' = r2.rb
          /\ op' = [name |-> "validate", ran |-> Append(op.ran, "validate")]
    /\ validated' = DOMAIN node_shapes
    /\ UNCHANGED <<store, node_shapes, stats, graph, input>>

NextStages ==
    \/ ConfigBuild
    \/ OntoEnvInit
    \/ AddShapes
    \/ AddData
    \/ SkolemizeShapes
    \/ SkolemizeData
    \/ StoreOptimize
    \/ RunParser
    \/ OptimizeShapes
    \/ StagesValidate

SpecStages == InitStages /\ [][NextStages]_vars

\* the position of a stage among the stages that ran, 0 when it did not run
RanAt(name) ==
    IF name \in Range(op.ran) THEN CHOOSE i \in 1..Len(op.ran) : op.ran[i] = name ELSE 0

\* the five stages in the order of the lifecycle
Lifecycle ==
    <<"skolemize(shapes)", "skolemize(data)", "run_parser", "Optimizer::optimize",
      "validate">>

\* a stage of the lifecycle ran only after the stages before it
StagesInOrder ==
    \A i, j \in 1..Len(Lifecycle) :
        (i < j /\ RanAt(Lifecycle[j]) # 0)
            => (RanAt(Lifecycle[i]) # 0 /\ RanAt(Lifecycle[i]) < RanAt(Lifecycle[j]))

\* a step that changes the store is a step of one of the stages of S
WritesOnlyIn(S) == store' # store => op'.ran[Len(op'.ran)] \in S

\* once the parser started, the store stays as it is
ReadOnlyFromParsing ==
    ("run_parser" \in Range(op.ran) \/ StageAfter(op.ran) = "run_parser") => store' = store

\* once the optimiser finished, the shapes stay as they are
FrozenAfterOptimiser == ("Optimizer::optimize" \in Range(op.ran)) => node_shapes' = node_shapes

\* C25 (as stated): the stages run in the order skolemise shapes, skolemise data,
\* parse, optimise, validate; every write of the store is a step of a
\* skolemisation; the store is not written from parsing on; the shapes are not
\* modified after the optimiser finished
C25_WritesOnlyWhileSkolemising ==
    /\ []StagesInOrder
    /\ [][WritesOnlyIn({"skolemize(shapes)", "skolemize(data)"})]_vars
    /\ [][ReadOnlyFromParsing]_vars
    /\ [][FrozenAfterOptimiser]_vars

\* C25 (amended): the stages run in the order skolemise shapes, skolemise data,
\* parse, optimise, validate; every write of the store is a step of the loading
\* of a source or of a skolemisation; the store is not written from parsing on;
\* the shapes are not modified after the optimiser finished
C25_WritesOnlyBeforeParsing ==
    /\ []StagesInOrder
    /\ [][WritesOnlyIn({"env.add(shapes)", "env.add(data)", "skolemize(shapes)",
                        "skolemize(data)"})]_vars
    /\ [][ReadOnlyFromParsing]_vars
    /\ [][FrozenAfterOptimiser]_vars

\* a run that loaded and skolemised a data graph with a blank node, removed a
\* target in the optimiser and validated
C25_Witness ==
    /\ op.name = "validate"
    /\ \E q \in store : q[1] = DATA_GRAPH /\ q[4] = SkolemBase(DATA_GRAPH) \o "b1"
    /\ stats > 0

-----------------------------------------------------------------------------
(* The isomorphism check of two graphs.  A graph is a set of triples <<s, p, o>>. *)

\* oxigraph_to_petgraph: a node for every subject and object, weighted with the
\* term, and an edge for every triple, weighted with the predicate
oxigraph_to_petgraph(ox_graph) ==
    [nodes |-> {x[1] : x \in ox_graph} \cup {x[3] : x \in ox_graph},
     edges |-> ox_graph]

\* the weights of the edges from s to o
EdgeWeights(pg, s, o) == {e[2] : e \in {x \in pg.edges : x[1] = s /\ x[3] = o}}

\* the closures are_isomorphic hands to the matching: |n1, n2| n1 == n2 and
\* |e1, e2| e1 == e2
node_match(n1, n2) == n1 = n2
edge_match(e1, e2) == e1 = e2

\* petgraph::algo::is_isomorphic_matching: a one-to-one mapping of the nodes
\* that the node matcher accepts and that maps the edges onto edges that the
\* edge matcher accepts
is_isomorphic_matching(pg1, pg2) ==
    /\ Cardinality(pg1.nodes) = Cardinality(pg2.nodes)
    /\ Cardinality(pg1.edges) = Cardinality(pg2.edges)
    /\ \E f \in [pg1.nodes -> pg2.nodes] :
          /\ \A n, k \in pg1.nodes : f[n] = f[k] => n = k
          /\ \A n \in pg1.nodes : node_match(n, f[n])
          /\ \A s, o \in pg1.nodes :
                /\ Cardinality(EdgeWeights(pg1, s, o))
                      = Cardinality(EdgeWeights(pg2, f[s], f[o]))
                /\ \A e1 \in EdgeWeights(pg1, s, o) :
                      \E e2 \in EdgeWeights(pg2, f[s], f[o]) : edge_match(e1, e2)

\* are_isomorphic
are_isomorphic(g1, g2) ==
    is_isomorphic_matching(oxigraph_to_petgraph(g1), oxigraph_to_petgraph(g2))

\* the number of triples of the first graph
MaxTriples == 2

IsoSubjects == {"ex:a", "_:b1", "_:b2"}
IsoPredicates == {"ex:p", "ex:q"}
IsoObjects == IsoSubjects \cup {SimpleLiteral("x")}

\* the graphs of MaxTriples triples at most
IsoGraphs ==
    UNION {{Range(s) : s \in [1..k -> IsoSubjects \X IsoPredicates \X IsoObjects]} :
              k \in 0..MaxTriples}

\* the graph with every term t replaced by r[t] where r has it
Relabel(g, r) ==
    LET to(t) == IF t \in DOMAIN r THEN r[t] ELSE t
    IN {<<to(x[1]), to(x[2]), to(x[3])>> : x \in g}

\* the second graph as made from the first: a copy, copies with the blank nodes
\* relabelled, and copies with another predicate, IRI or literal
IsoChanges ==
    {<<>>,
     [t \in {"_:b1", "_:b2"} |-> IF t = "_:b1" THEN "_:b2" ELSE "_:b1"],
     [t \in {"_:b1", "_:b2"} |-> IF t = "_:b1" THEN "_:b3" ELSE "_:b4"],
     [t \in {"_:b1", "_:b2"} |-> "_:b1"],
     [t \in {"ex:p"} |-> "ex:q"],
     [t \in {"ex:a"} |-> "ex:c"],
     [t \in {SimpleLiteral("x")} |-> SimpleLiteral("y")]}

InitIso ==
    /\ store = {}
    /\ node_shapes = <<>>
    /\ stats = 0
    /\ results = <<>>
    /\ graph = {}
    /\ validated = {}
    /\ op = [name |-> "new"]
    /\ \E g \in IsoGraphs, r \in IsoChanges : input = [g1 |-> g, g2 |-> Relabel(g, r)]

AreIsomorphic ==
    /\ op.name = "new"
    /\ op' = [name |-> "are_isomorphic", result |-> are_isomorphic(input.g1, input.g2),
              swapped |-> are_isomorphic(input.g2, input.g1),
              same |-> are_isomorphic(input.g1, input.g1)]
    /\ UNCHANGED <<store, node_shapes, stats, results, graph, validated, input>>

NextIso == AreIsomorphic

SpecIso == InitIso /\ [][NextIso]_vars

\* the blank nodes of a graph
BlankNodesOf(g) == {t \in {x[1] : x \in g} \cup {x[3] : x \in g} : IsBlank(t)}

\* two RDF graphs are isomorphic: a bijection of the blank nodes maps one onto the other
RdfIsomorphic(g1, g2) ==
    \E b \in [BlankNodesOf(g1) -> BlankNodesOf(g2)] :
        /\ \A n, k \in DOMAIN b : b[n] = b[k] => n = k
        /\ {b[n] : n \in DOMAIN b} = BlankNodesOf(g2)
        /\ Relabel(g1, b) = g2

\* C26: are_isomorphic is true exactly of the graphs that are equal up to a
\* bijective renaming of the blank nodes; it is reflexive and symmetric
C26_IsomorphicUpToBlankNodes ==
    op.name = "are_isomorphic" =>
        /\ op.result <=> RdfIsomorphic(input.g1, input.g2)
        /\ op.same
        /\ op.result <=> op.swapped

====
